---- MODULE Spec2Model ----
(***************************************************************************)
(* The bytecode virtual machine of the Vaja/Zumbra interpreter (package    *)
(* vm), with the object model (package object) and the array built-ins     *)
(* (package builtins) it executes against.                                 *)
(*                                                                         *)
(* One action per case of the dispatch switch of VM.Run.  A step of the    *)
(* model is one iteration of the dispatch loop: increment ip, fetch the    *)
(* opcode, decode the operands, execute.  Go slices are 0-based, TLA+      *)
(* sequences 1-based: Go's s[i] is written At(s, i) below.                 *)
(***************************************************************************)
EXTENDS Integers, Sequences, FiniteSets, TLC

VARIABLES
    program,      \* index into Programs of the bytecode given to New
    constants,    \* vm.constants
    stack,        \* vm.stack, the slots written so far (the rest are nil)
    sp,           \* vm.sp
    globals,      \* vm.globals, the indices written so far (the rest are nil)
    frames,       \* vm.frames, the entries written so far
    framesIndex,  \* vm.framesIndex
    heap,         \* the Elements slice of every allocated *object.Array, by address
    nextId,       \* the next fresh object address
    status,       \* "running" | "done" (Run returned nil) | "error" | "panic"
    err           \* the error Run returned, or the reason of the panic

vars == <<program, constants, stack, sp, globals, frames, framesIndex,
          heap, nextId, status, err>>

(***************************************************************************)
(* Program constants                                                       *)
(***************************************************************************)
StackSize == 2048
GlobalSize == 65536
\* The length of vm.frames.  The source sets 1024; the machine is run with a frame
\* buffer of this length, which no case of Run depends on.
MaxFrames == 16

\* The machine integer is int64; IntBits is the width it is modelled at.
IntBits == 8
IntMod == 2 ^ IntBits
MinInt == -(2 ^ (IntBits - 1))
MaxInt == 2 ^ (IntBits - 1) - 1

(***************************************************************************)
(* Opcodes (package code).  One byte each, numbered from OpConstant on in   *)
(* the order of their declaration.                                         *)
(***************************************************************************)
OpConstant == 0
OpAdd == OpConstant + 1
OpSub == OpConstant + 2
OpMul == OpConstant + 3
OpDiv == OpConstant + 4
OpMod == OpConstant + 5
OpAnd == OpConstant + 6
OpOr == OpConstant + 7
OpEqual == OpConstant + 8
OpNotEqual == OpConstant + 9
OpGreaterThan == OpConstant + 10
OpLessThan == OpConstant + 11
OpGreaterThanOrEqual == OpConstant + 12
OpLessThanOrEqual == OpConstant + 13
OpTrue == OpConstant + 14
OpFalse == OpConstant + 15
OpNull == OpConstant + 16
OpBang == OpConstant + 17
OpMinus == OpConstant + 18
OpPop == OpConstant + 19
OpJump == OpConstant + 20
OpJumpNotTruthy == OpConstant + 21
OpSetGlobal == OpConstant + 22
OpGetGlobal == OpConstant + 23
OpSetLocal == OpConstant + 24
OpGetLocal == OpConstant + 25
OpGetBuiltin == OpConstant + 26
OpArray == OpConstant + 27
OpDict == OpConstant + 28
OpIndex == OpConstant + 29
OpCall == OpConstant + 30
OpReturnValue == OpConstant + 31
OpReturn == OpConstant + 32
OpClosure == OpConstant + 33
OpGetFree == OpConstant + 34
OpCurrentClosure == OpConstant + 35
OpWhile == OpConstant + 36
OpGetAttr == OpConstant + 37

\* The opcodes the switch of Run has a case for.
DefinedOpcodes == OpConstant .. OpGetAttr

(***************************************************************************)
(* Object model (package object).  Every object is a pointer in the Go     *)
(* code: the field id is its address, so that identity (==  on pointers)   *)
(* and structural equality are different things.                           *)
(***************************************************************************)
INTEGER_OBJ == "INTEGER"
BOOLEAN_OBJ == "BOOLEAN"
NULL_OBJ == "NULL"
ERROR_OBJ == "ERROR"
STRING_OBJ == "STRING"
BUILTIN_OBJ == "BUILTIN"
ARRAY_OBJ == "ARRAY"
DICT_OBJ == "DICT"
FLOAT_OBJ == "FLOAT"
CLOSURE_OBJ == "CLOSURE"
COMPILED_FUNCTION_OBJ == "COMPILED_FUNCTION"
DATE_OBJ == "DATE"

\* A nil interface value: a stack slot or a global never written.
Nil == [type |-> "nil"]

True == [type |-> BOOLEAN_OBJ, b |-> TRUE, id |-> 1]
False == [type |-> BOOLEAN_OBJ, b |-> FALSE, id |-> 2]
Null == [type |-> NULL_OBJ, id |-> 3]

Integer(n, id) == [type |-> INTEGER_OBJ, n |-> n, id |-> id]
\* A string is its bytes.
String(s, id) == [type |-> STRING_OBJ, s |-> s, id |-> id]
Error(msg, id) == [type |-> ERROR_OBJ, msg |-> msg, id |-> id]
\* The elements of an array live in heap[id]: arrays are shared and mutated in place.
Array(id) == [type |-> ARRAY_OBJ, id |-> id]
Dict(pairs, id) == [type |-> DICT_OBJ, Pairs |-> pairs, id |-> id]
Builtin(name, id) == [type |-> BUILTIN_OBJ, name |-> name, id |-> id]
CompiledFunction(ins, nl, np, id) ==
    [type |-> COMPILED_FUNCTION_OBJ, Instructions |-> ins, NumLocals |-> nl,
     NumParameters |-> np, id |-> id]
Closure(fn, free, id) == [type |-> CLOSURE_OBJ, Fn |-> fn, Free |-> free, id |-> id]
Date(y, mo, d, h, mi, s, full, id) ==
    [type |-> DATE_OBJ, Year |-> y, Month |-> mo, Day |-> d, Hour |-> h,
     Minute |-> mi, Second |-> s, FullDate |-> full, id |-> id]

\* o.Type(); calling it on a nil interface panics, which the callers check first.
Type(o) == o.type
IsNil(o) == o.type = "nil"

\* Go's s[i] on a sequence.
At(s, i) == s[i + 1]

\* int64 arithmetic wraps around.
Wrap(x) == ((x - MinInt) % IntMod) + MinInt
\* uint64(v): the two's complement bits read as unsigned.
ToUnsigned(v) == IF v < 0 THEN v + IntMod ELSE v

(***************************************************************************)
(* DictKey (object.go).  Value is the 64-bit key value; the model keeps    *)
(* its low IntBits bits, like every machine integer.                       *)
(***************************************************************************)
RECURSIVE Xor(_, _)
Xor(a, b) ==
    IF a = 0 THEN b
    ELSE IF b = 0 THEN a
    ELSE (((a % 2) + (b % 2)) % 2) + 2 * Xor(a \div 2, b \div 2)

\* hash/fnv New64a: offset basis 0xcbf29ce484222325 and prime 0x100000001b3,
\* of which the low 16 bits are kept here (IntBits <= 16).
FnvOffsetLow == 8997
FnvPrimeLow == 435
RECURSIVE Fnv1a(_, _)
Fnv1a(h, bytes) ==
    IF bytes = <<>> THEN h
    ELSE Fnv1a((Xor(h, Head(bytes) % IntMod) * (FnvPrimeLow % IntMod)) % IntMod,
               Tail(bytes))

\* A variant whose keys carry no type.
DictKeyOf_Untyped(type, value) == [Type |-> "", Value |-> value]
DictKeyOf(type, value) == [Type |-> type, Value |-> value]
BooleanDictKey(o) == DictKeyOf(Type(o), IF o.b THEN 1 ELSE 0)
IntegerDictKey(o) == DictKeyOf(Type(o), ToUnsigned(o.n))
StringDictKey(o) == DictKeyOf(Type(o), Fnv1a(FnvOffsetLow % IntMod, o.s))

\* key.(object.Dictable): the types that have a DictKey method.
Dictable(o) == ~IsNil(o) /\ Type(o) \in {INTEGER_OBJ, BOOLEAN_OBJ, STRING_OBJ}
DictKey(o) ==
    CASE Type(o) = BOOLEAN_OBJ -> BooleanDictKey(o)
      [] Type(o) = INTEGER_OBJ -> IntegerDictKey(o)
      [] Type(o) = STRING_OBJ -> StringDictKey(o)

\* A Go map: the keys written so far.
EmptyMap == [k \in {} |-> Nil]
MapPut(m, k, v) == [x \in DOMAIN m \cup {k} |-> IF x = k THEN v ELSE m[x]]
DictPair(key, value) == [Key |-> key, Value |-> value]

(***************************************************************************)
(* Instruction encoding (package code)                                     *)
(***************************************************************************)
OperandWidths(op) ==
    CASE op \in {OpConstant, OpJump, OpJumpNotTruthy, OpSetGlobal, OpGetGlobal,
                 OpArray, OpDict, OpWhile} -> <<2>>
      [] op \in {OpSetLocal, OpGetLocal, OpGetBuiltin, OpCall, OpGetFree} -> <<1>>
      [] op = OpClosure -> <<2, 1>>
      [] OTHER -> <<>>

PutUint16(n) == <<(n \div 256) % 256, n % 256>>

RECURSIVE EncodeOperands(_, _)
EncodeOperands(widths, operands) ==
    IF widths = <<>> \/ operands = <<>> THEN <<>>
    ELSE (IF Head(widths) = 2 THEN PutUint16(Head(operands))
          ELSE <<Head(operands) % 256>>)
         \o EncodeOperands(Tail(widths), Tail(operands))

Make(op, operands) == <<op>> \o EncodeOperands(OperandWidths(op), operands)

\* code.ReadUint16(ins[off:]) and code.ReadUint8(ins[off:])
ReadUint16(ins, off) == At(ins, off) * 256 + At(ins, off + 1)
ReadUint8(ins, off) == At(ins, off)

RECURSIVE Concat(_)
Concat(ss) == IF ss = <<>> THEN <<>> ELSE Head(ss) \o Concat(Tail(ss))

(***************************************************************************)
(* The VM as a value: the operators below are the methods of *VM, taking   *)
(* the machine and returning it changed.  Field err is the error a method  *)
(* returned ("" for nil).  Field panic is the reason of a Go runtime panic *)
(* ("" for none): once set, the goroutine is unwinding and no method has   *)
(* any further effect.                                                     *)
(***************************************************************************)
Cur ==
    [constants |-> constants, stack |-> stack, sp |-> sp, globals |-> globals,
     frames |-> frames, framesIndex |-> framesIndex, heap |-> heap,
     nextId |-> nextId, err |-> "", panic |-> ""]

Panic(vm, why) == IF vm.panic # "" THEN vm ELSE [vm EXCEPT !.panic = why]
Fail(vm, msg) == IF vm.panic # "" THEN vm ELSE [vm EXCEPT !.err = msg]
Failed(vm) == vm.panic # "" \/ vm.err # ""
\* The caller drops the error a method returned.
Ignore(vm) == [vm EXCEPT !.err = ""]

\* vm.stack[i] as an rvalue: nil where nothing was written; InStack is Go's bounds check.
InStack(i) == 0 <= i /\ i < StackSize
StackGet(vm, i) == IF 0 <= i /\ i < Len(vm.stack) THEN vm.stack[i + 1] ELSE Nil
StackPut(st, i, o) ==
    IF i < Len(st) THEN [st EXCEPT ![i + 1] = o]
    ELSE st \o [k \in 1 .. (i - Len(st)) |-> Nil] \o <<o>>

\* Read access vm.stack[i] with its bounds check.
CheckStack(vm, i) == IF InStack(i) THEN vm ELSE Panic(vm, "index out of range")

push_NoOverflowCheck(vm, o) ==
    IF vm.panic # "" THEN vm
    ELSE IF ~InStack(vm.sp) THEN Panic(vm, "index out of range")
    ELSE [vm EXCEPT !.stack = StackPut(@, vm.sp, o), !.sp = @ + 1]

push(vm, o) ==
    IF vm.panic # "" THEN vm
    ELSE IF vm.sp >= StackSize THEN Fail(vm, "stack overflow")
    ELSE IF ~InStack(vm.sp) THEN Panic(vm, "index out of range")
    ELSE [vm EXCEPT !.stack = StackPut(@, vm.sp, o), !.sp = @ + 1]

\* pop: the value is Top(vm), the machine after it is pop(vm).
Top(vm) == StackGet(vm, vm.sp - 1)
pop_ClearsSlot(vm) ==
    IF vm.panic # "" THEN vm
    ELSE IF ~InStack(vm.sp - 1) THEN Panic(vm, "index out of range")
    ELSE [vm EXCEPT !.stack = StackPut(@, vm.sp - 1, Nil), !.sp = @ - 1]
pop(vm) ==
    IF vm.panic # "" THEN vm
    ELSE IF ~InStack(vm.sp - 1) THEN Panic(vm, "index out of range")
    ELSE [vm EXCEPT !.sp = @ - 1]

LastPoppedStackElem(vm) == StackGet(vm, vm.sp)

\* StackTop: nil on an empty stack.
StackTop(vm) == IF vm.sp = 0 THEN Nil ELSE StackGet(vm, vm.sp - 1)

(***************************************************************************)
(* Frames                                                                  *)
(***************************************************************************)
NewFrame(cl, basePointer) == [cl |-> cl, ip |-> -1, basePointer |-> basePointer]

currentFrame(vm) == vm.frames[vm.framesIndex]
Instructions(frame) == frame.cl.Fn.Instructions

pushFrame(vm, f) ==
    IF vm.panic # "" THEN vm
    ELSE IF vm.framesIndex >= MaxFrames THEN Panic(vm, "index out of range")
    ELSE [vm EXCEPT
            !.frames = IF vm.framesIndex < Len(@)
                       THEN [@ EXCEPT ![vm.framesIndex + 1] = f]
                       ELSE Append(@, f),
            !.framesIndex = @ + 1]

\* popFrame: the frame is PoppedFrame(vm), the machine after it is popFrame(vm).
PoppedFrame(vm) == vm.frames[vm.framesIndex]
\* A variant that leaves the callee's frame current.
popFrame_KeepsFrame(vm) == vm
popFrame(vm) ==
    IF vm.panic # "" THEN vm
    ELSE IF vm.framesIndex - 1 < 0 THEN Panic([vm EXCEPT !.framesIndex = @ - 1],
                                              "index out of range")
    ELSE [vm EXCEPT !.framesIndex = @ - 1]

\* vm.currentFrame().ip += k, and vm.currentFrame().ip = pos
AddIp(vm, k) ==
    IF vm.panic # "" THEN vm ELSE [vm EXCEPT !.frames[vm.framesIndex].ip = @ + k]
SetIp(vm, pos) ==
    IF vm.panic # "" THEN vm ELSE [vm EXCEPT !.frames[vm.framesIndex].ip = pos]

\* Whether the operand bytes ins[ip+1 .. ip+k] exist (ReadUint16 and ReadUint8 panic
\* on a slice that is too short).
HasOperands(ins, ip, k) == ip + k <= Len(ins) - 1

\* isTruthy
\* A variant for which the Integer 0 is falsy.
isTruthy_ZeroIsFalsy(obj) ==
    CASE IsNil(obj) -> TRUE
      [] Type(obj) = BOOLEAN_OBJ -> obj.b
      [] Type(obj) = NULL_OBJ -> FALSE
      [] Type(obj) = INTEGER_OBJ -> obj.n # 0
      [] OTHER -> TRUE
isTruthy(obj) ==
    CASE IsNil(obj) -> TRUE
      [] Type(obj) = BOOLEAN_OBJ -> obj.b
      [] Type(obj) = NULL_OBJ -> FALSE
      [] OTHER -> TRUE

\* A variant that makes a Boolean object of its own.
nativeBoolToBooleanObject_New(input) == [type |-> BOOLEAN_OBJ, b |-> input, id |-> 0]
nativeBoolToBooleanObject(input) == IF input THEN True ELSE False

\* Pointer equality of two interface values.
\* A variant that compares the types, not the pointers.
SameObject_ByType(a, b) ==
    IF IsNil(a) \/ IsNil(b) THEN IsNil(a) /\ IsNil(b) ELSE Type(a) = Type(b)
SameObject(a, b) ==
    IF IsNil(a) \/ IsNil(b) THEN IsNil(a) /\ IsNil(b) ELSE a.id = b.id

(***************************************************************************)
(* Floats.  A float64 is modelled as a fixed-point number f / FloatScale   *)
(* (results rounded toward zero to that grid), or an infinity or NaN.      *)
(***************************************************************************)
FloatScale == 4
Fin(f) == [k |-> "fin", f |-> f]
Inf(sign) == [k |-> IF sign < 0 THEN "-Inf" ELSE "+Inf", f |-> 0]
NaN == [k |-> "NaN", f |-> 0]
Abs(x) == IF x < 0 THEN -x ELSE x
Sign(x) == IF x < 0 THEN -1 ELSE IF x > 0 THEN 1 ELSE 0
\* Go's integer division truncates toward zero; the remainder has the sign of the dividend.
TruncDiv(a, b) == Sign(a) * Sign(b) * (Abs(a) \div Abs(b))
TruncRem(a, b) == a - b * TruncDiv(a, b)
FSign(x) == CASE x.k = "+Inf" -> 1 [] x.k = "-Inf" -> -1 [] OTHER -> Sign(x.f)
FNeg(x) ==
    CASE x.k = "fin" -> Fin(-x.f) [] x.k = "+Inf" -> Inf(-1) [] x.k = "-Inf" -> Inf(1)
      [] OTHER -> NaN
FAdd(x, y) ==
    CASE x.k = "NaN" \/ y.k = "NaN" -> NaN
      [] x.k = "fin" /\ y.k = "fin" -> Fin(x.f + y.f)
      [] x.k = "fin" -> y
      [] y.k = "fin" -> x
      [] x.k = y.k -> x
      [] OTHER -> NaN
FSub(x, y) == FAdd(x, FNeg(y))
FMul(x, y) ==
    CASE x.k = "NaN" \/ y.k = "NaN" -> NaN
      [] x.k = "fin" /\ y.k = "fin" -> Fin(TruncDiv(x.f * y.f, FloatScale))
      [] FSign(x) = 0 \/ FSign(y) = 0 -> NaN
      [] OTHER -> Inf(FSign(x) * FSign(y))
FDiv(x, y) ==
    CASE x.k = "NaN" \/ y.k = "NaN" -> NaN
      [] x.k = "fin" /\ y.k = "fin" ->
            IF y.f # 0 THEN Fin(TruncDiv(x.f * FloatScale, y.f))
            ELSE IF x.f = 0 THEN NaN ELSE Inf(x.f)
      [] x.k = "fin" -> Fin(0)
      [] y.k = "fin" -> Inf(FSign(x) * (IF y.f < 0 THEN -1 ELSE 1))
      [] OTHER -> NaN
FEq(x, y) == x.k # "NaN" /\ y.k # "NaN" /\ x = y
FLt(x, y) ==
    CASE x.k = "NaN" \/ y.k = "NaN" -> FALSE
      [] x.k = "fin" /\ y.k = "fin" -> x.f < y.f
      [] OTHER -> x.k # y.k /\ (x.k = "-Inf" \/ y.k = "+Inf")
\* float64(i) of an int64, and the float held by a Float object
FromInt(n) == Fin(n * FloatScale)
FVal(o) == [k |-> o.k, f |-> o.f]
NewFloat(x, id) == [type |-> FLOAT_OBJ, k |-> x.k, f |-> x.f, id |-> id]

\* push(&object.T{...}): a fresh object, whose address is used up even when the push fails.
pushInteger(vm, n) == push([vm EXCEPT !.nextId = @ + 1], Integer(n, vm.nextId))
pushFloat(vm, x) == push([vm EXCEPT !.nextId = @ + 1], NewFloat(x, vm.nextId))
pushString(vm, s) == push([vm EXCEPT !.nextId = @ + 1], String(s, vm.nextId))

(***************************************************************************)
(* Arithmetic                                                              *)
(***************************************************************************)
executeBinaryIntegerOperation(vm, op, left, right) ==
    CASE op = OpAdd -> pushInteger(vm, Wrap(left.n + right.n))
      [] op = OpSub -> pushInteger(vm, Wrap(left.n - right.n))
      [] op = OpMul -> pushInteger(vm, Wrap(left.n * right.n))
      [] op = OpDiv -> IF right.n = 0 THEN Panic(vm, "integer divide by zero")
                       ELSE pushInteger(vm, Wrap(TruncDiv(left.n, right.n)))
      [] op = OpMod -> IF right.n = 0 THEN Panic(vm, "integer divide by zero")
                       ELSE pushInteger(vm, Wrap(TruncRem(left.n, right.n)))
      [] OTHER -> Fail(vm, "unknown integer operator: " \o ToString(op))

\* executeFloatOperation, executeIntLeftFloatRight and executeIntRightFloatLeft,
\* which differ only in the conversion of their operands.
floatOperation(vm, op, l, r) ==
    CASE op = OpAdd -> pushFloat(vm, FAdd(l, r))
      [] op = OpSub -> pushFloat(vm, FSub(l, r))
      [] op = OpMul -> pushFloat(vm, FMul(l, r))
      [] op = OpDiv -> pushFloat(vm, FDiv(l, r))
      [] OTHER -> Fail(vm, "unknown float operator: " \o ToString(op))
executeFloatOperation(vm, op, left, right) ==
    floatOperation(vm, op, FVal(left), FVal(right))
executeIntLeftFloatRight(vm, op, left, right) ==
    floatOperation(vm, op, FromInt(left.n), FVal(right))
executeIntRightFloatLeft(vm, op, left, right) ==
    floatOperation(vm, op, FVal(left), FromInt(right.n))

\* A variant that concatenates whatever the operator is.
executeBinaryStringOperation_AnyOperator(vm, op, left, right) ==
    pushString(vm, left.s \o right.s)
executeBinaryStringOperation(vm, op, left, right) ==
    IF op # OpAdd THEN Fail(vm, "unknown string operator: " \o ToString(op))
    ELSE pushString(vm, left.s \o right.s)

executeBinaryOperation(vm0, op) ==
    LET right == Top(vm0)
        vm1 == pop(vm0)
        left == Top(vm1)
        vm == pop(vm1)
    IN  IF vm.panic # "" THEN vm
        ELSE IF IsNil(left) \/ IsNil(right) THEN Panic(vm, "nil pointer dereference")
        ELSE CASE Type(left) = INTEGER_OBJ /\ Type(right) = INTEGER_OBJ ->
                    executeBinaryIntegerOperation(vm, op, left, right)
               [] Type(left) = FLOAT_OBJ /\ Type(right) = FLOAT_OBJ ->
                    executeFloatOperation(vm, op, left, right)
               [] Type(left) = INTEGER_OBJ /\ Type(right) = FLOAT_OBJ ->
                    executeIntLeftFloatRight(vm, op, left, right)
               [] Type(left) = FLOAT_OBJ /\ Type(right) = INTEGER_OBJ ->
                    executeIntRightFloatLeft(vm, op, left, right)
               [] Type(left) = STRING_OBJ /\ Type(right) = STRING_OBJ ->
                    executeBinaryStringOperation(vm, op, left, right)
               [] OTHER ->
                    Fail(vm, "unsupported types for binary operation: "
                             \o Type(left) \o " " \o Type(right))

(***************************************************************************)
(* Comparison                                                              *)
(***************************************************************************)
pushBool(vm, input) == push(vm, nativeBoolToBooleanObject(input))

executeIntegerComparison(vm, op, left, right) ==
    CASE op = OpEqual -> pushBool(vm, right.n = left.n)
      [] op = OpNotEqual -> pushBool(vm, right.n # left.n)
      [] op = OpGreaterThan -> pushBool(vm, left.n > right.n)
      [] op = OpLessThan -> pushBool(vm, left.n < right.n)
      [] op = OpGreaterThanOrEqual -> pushBool(vm, left.n >= right.n)
      [] op = OpLessThanOrEqual -> pushBool(vm, left.n <= right.n)
      [] OTHER -> Fail(vm, "unknown operator: " \o ToString(op))

\* executeFloatComparison, executeIntLeftFloatRightComparison and
\* executeIntRightFloatLeftComparison, which differ only in the conversion.
floatComparison(vm, op, l, r) ==
    CASE op = OpEqual -> pushBool(vm, FEq(l, r))
      [] op = OpNotEqual -> pushBool(vm, ~FEq(l, r))
      [] op = OpGreaterThan -> pushBool(vm, FLt(r, l))
      [] op = OpLessThan -> pushBool(vm, FLt(l, r))
      [] op = OpGreaterThanOrEqual -> pushBool(vm, FLt(r, l) \/ FEq(l, r))
      [] op = OpLessThanOrEqual -> pushBool(vm, FLt(l, r) \/ FEq(l, r))
      [] OTHER -> Fail(vm, "unknown float operator: " \o ToString(op))
executeFloatComparison(vm, op, left, right) ==
    floatComparison(vm, op, FVal(left), FVal(right))
executeIntLeftFloatRightComparison(vm, op, left, right) ==
    floatComparison(vm, op, FromInt(left.n), FVal(right))
executeIntRightFloatLeftComparison(vm, op, left, right) ==
    floatComparison(vm, op, FVal(left), FromInt(right.n))

executeStringComparison(vm, op, left, right) ==
    IF op # OpEqual THEN Fail(vm, "unknown string operator: " \o ToString(op))
    ELSE pushBool(vm, left.s = right.s)

executeComparison(vm0, op) ==
    LET right == Top(vm0)
        vm1 == pop(vm0)
        left == Top(vm1)
        vm == pop(vm1)
    IN  IF vm.panic # "" THEN vm
        ELSE IF IsNil(left) \/ IsNil(right) THEN Panic(vm, "nil pointer dereference")
        ELSE CASE Type(left) = INTEGER_OBJ /\ Type(right) = INTEGER_OBJ ->
                    executeIntegerComparison(vm, op, left, right)
               [] Type(left) = INTEGER_OBJ /\ Type(right) = FLOAT_OBJ ->
                    executeIntLeftFloatRightComparison(vm, op, left, right)
               [] Type(left) = FLOAT_OBJ /\ Type(right) = FLOAT_OBJ ->
                    executeFloatComparison(vm, op, left, right)
               [] Type(left) = FLOAT_OBJ /\ Type(right) = INTEGER_OBJ ->
                    executeIntRightFloatLeftComparison(vm, op, left, right)
               [] Type(left) = STRING_OBJ /\ Type(right) = STRING_OBJ ->
                    executeStringComparison(vm, op, left, right)
               [] op = OpEqual -> pushBool(vm, SameObject(right, left))
               [] op = OpNotEqual -> pushBool(vm, ~SameObject(right, left))
               [] OTHER ->
                    Fail(vm, "unknown operator: " \o ToString(op) \o " ("
                             \o Type(left) \o " " \o Type(right) \o ")")

executeBangOperator(vm0) ==
    LET val == Top(vm0)
        vm == pop(vm0)
    IN  CASE SameObject(val, True) -> push(vm, False)
          [] SameObject(val, False) -> push(vm, True)
          [] SameObject(val, Null) -> push(vm, True)
          [] OTHER -> push(vm, False)

executeMinusOperator(vm0) ==
    LET val == Top(vm0)
        vm == pop(vm0)
    IN  IF vm.panic # "" THEN vm
        ELSE IF IsNil(val) THEN Panic(vm, "nil pointer dereference")
        ELSE IF Type(val) # INTEGER_OBJ
        THEN Fail(vm, "unsupported type for negation: " \o Type(val))
        ELSE pushInteger(vm, Wrap(-val.n))

\* case code.OpAnd and case code.OpOr of Run: the error of push is dropped.
executeAnd(vm0) ==
    LET right == Top(vm0)
        vm1 == pop(vm0)
        left == Top(vm1)
        vm == pop(vm1)
    IN  Ignore(pushBool(vm, isTruthy(left) /\ isTruthy(right)))
executeOr(vm0) ==
    LET right == Top(vm0)
        vm1 == pop(vm0)
        left == Top(vm1)
        vm == pop(vm1)
    IN  Ignore(pushBool(vm, isTruthy(left) \/ isTruthy(right)))

(***************************************************************************)
(* Arrays, dicts and indexing                                              *)
(***************************************************************************)
HeapGet(vm, id) == vm.heap[id]
\* &object.Array{Elements: elements}: a fresh array object.
NewArray(vm, elements) ==
    [vm EXCEPT !.heap = MapPut(@, vm.nextId, elements), !.nextId = @ + 1]

\* buildArray: the machine after it (a fresh array at address vm.nextId, or a panic
\* on a slot outside the stack).
\* A variant that takes the elements from the top of the stack downwards.
buildArray_TopFirst(vm, startIndex, endIndex) ==
    IF vm.panic # "" THEN vm
    ELSE IF startIndex < endIndex /\ (~InStack(startIndex) \/ ~InStack(endIndex - 1))
    THEN Panic(vm, "index out of range")
    ELSE NewArray(vm, [k \in 1 .. (endIndex - startIndex) |->
                            StackGet(vm, endIndex - k)])
buildArray(vm, startIndex, endIndex) ==
    IF vm.panic # "" THEN vm
    ELSE IF startIndex < endIndex /\ (~InStack(startIndex) \/ ~InStack(endIndex - 1))
    THEN Panic(vm, "index out of range")
    ELSE NewArray(vm, [k \in 1 .. (endIndex - startIndex) |->
                            StackGet(vm, startIndex + k - 1)])

\* The loop of buildDict from slot i on: the pairs, or the error or panic that ended it.
RECURSIVE buildDictLoop(_, _, _, _)
buildDictLoop(vm, i, endIndex, dictedPairs) ==
    IF i >= endIndex THEN [vm |-> vm, Pairs |-> dictedPairs]
    ELSE IF ~InStack(i) \/ ~InStack(i + 1)
    THEN [vm |-> Panic(vm, "index out of range"), Pairs |-> dictedPairs]
    ELSE LET key == StackGet(vm, i)
             value == StackGet(vm, i + 1)
         IN  IF ~Dictable(key)
             THEN [vm |-> IF IsNil(key) THEN Panic(vm, "nil pointer dereference")
                          ELSE Fail(vm, "unusable as hash key: " \o Type(key)),
                   Pairs |-> dictedPairs]
             ELSE buildDictLoop(vm, i + 2, endIndex,
                                MapPut(dictedPairs, DictKey(key), DictPair(key, value)))

buildDict(vm, startIndex, endIndex) ==
    buildDictLoop(vm, startIndex, endIndex, EmptyMap)

executeArrayIndex_OffByOne(vm, array, index) ==
    LET elements == HeapGet(vm, array.id)
        i == index.n
        max == Len(elements)
    IN  IF i < 0 \/ i > max THEN push(vm, Null)
        ELSE IF i >= Len(elements) THEN Panic(vm, "index out of range")
        ELSE push(vm, At(elements, i))

executeArrayIndex(vm, array, index) ==
    LET elements == HeapGet(vm, array.id)
        i == index.n
        max == Len(elements) - 1
    IN  IF i < 0 \/ i > max THEN push(vm, Null)
        ELSE push(vm, At(elements, i))

executeDictIndex_MissIsError(vm, dict, index) ==
    IF ~Dictable(index)
    THEN IF IsNil(index) THEN Panic(vm, "nil pointer dereference")
         ELSE Fail(vm, "unusable as hash key: " \o Type(index))
    ELSE IF DictKey(index) \notin DOMAIN dict.Pairs THEN Fail(vm, "key not found")
    ELSE push(vm, dict.Pairs[DictKey(index)].Value)

executeDictIndex(vm, dict, index) ==
    IF ~Dictable(index)
    THEN IF IsNil(index) THEN Panic(vm, "nil pointer dereference")
         ELSE Fail(vm, "unusable as hash key: " \o Type(index))
    ELSE IF DictKey(index) \notin DOMAIN dict.Pairs THEN push(vm, Null)
    ELSE push(vm, dict.Pairs[DictKey(index)].Value)

executeIndexExpression(vm, left, index) ==
    IF vm.panic # "" THEN vm
    ELSE IF IsNil(left) THEN Panic(vm, "nil pointer dereference")
    ELSE IF Type(left) = ARRAY_OBJ /\ IsNil(index)
    THEN Panic(vm, "nil pointer dereference")
    ELSE CASE Type(left) = ARRAY_OBJ /\ Type(index) = INTEGER_OBJ ->
                executeArrayIndex(vm, left, index)
           [] Type(left) = DICT_OBJ -> executeDictIndex(vm, left, index)
           [] OTHER -> Fail(vm, "index operator not supported: " \o Type(left))

(***************************************************************************)
(* Closures                                                                *)
(***************************************************************************)
\* The %T of a constant that is not a compiled function.
GoTypeName(o) == IF IsNil(o) THEN "<nil>" ELSE "*object." \o Type(o)

\* A variant that captures the slots one place higher.
pushClosure_OneHigher(vm, constIndex, numFree) ==
    IF vm.panic # "" THEN vm
    ELSE IF constIndex >= Len(vm.constants) THEN Panic(vm, "index out of range")
    ELSE LET constant == At(vm.constants, constIndex) IN
         IF IsNil(constant) \/ Type(constant) # COMPILED_FUNCTION_OBJ
         THEN Fail(vm, "not a function: " \o GoTypeName(constant))
         ELSE IF numFree > 0 /\ (~InStack(vm.sp - numFree) \/ ~InStack(vm.sp - 1))
         THEN Panic(vm, "index out of range")
         ELSE LET free == [k \in 1 .. numFree |-> StackGet(vm, vm.sp - numFree + k)]
                  closure == Closure(constant, free, vm.nextId)
              IN  push([vm EXCEPT !.sp = @ - numFree, !.nextId = @ + 1], closure)
pushClosure(vm, constIndex, numFree) ==
    IF vm.panic # "" THEN vm
    ELSE IF constIndex >= Len(vm.constants) THEN Panic(vm, "index out of range")
    ELSE LET constant == At(vm.constants, constIndex) IN
         IF IsNil(constant) \/ Type(constant) # COMPILED_FUNCTION_OBJ
         THEN Fail(vm, "not a function: " \o GoTypeName(constant))
         ELSE IF numFree > 0 /\ (~InStack(vm.sp - numFree) \/ ~InStack(vm.sp - 1))
         THEN Panic(vm, "index out of range")
         ELSE LET free == [k \in 1 .. numFree |-> StackGet(vm, vm.sp - numFree + k - 1)]
                  closure == Closure(constant, free, vm.nextId)
              IN  push([vm EXCEPT !.sp = @ - numFree, !.nextId = @ + 1], closure)

callClosure_NoArityCheck(vm, cl, numArgs) ==
    LET frame == NewFrame(cl, vm.sp - numArgs)
        vm1 == pushFrame(vm, frame)
    IN  IF vm1.panic # "" THEN vm1
        ELSE [vm1 EXCEPT !.sp = frame.basePointer + cl.Fn.NumLocals]

callClosure(vm, cl, numArgs) ==
    IF numArgs # cl.Fn.NumParameters
    THEN Fail(vm, "wrong number of arguments: want=" \o ToString(cl.Fn.NumParameters)
                  \o ", got=" \o ToString(numArgs))
    ELSE LET frame == NewFrame(cl, vm.sp - numArgs)
             vm1 == pushFrame(vm, frame)
         IN  IF vm1.panic # "" THEN vm1
             ELSE [vm1 EXCEPT !.sp = frame.basePointer + cl.Fn.NumLocals]

(***************************************************************************)
(* Built-ins (package builtins).  A built-in takes the machine (for the    *)
(* heap of arrays and fresh addresses) and the argument slice, and gives   *)
(* the machine after it and its result (Nil for a Go nil).                 *)
(***************************************************************************)
BuiltinNames ==
    <<"first", "last", "allButFirst", "addToArrayStart", "addToArrayEnd",
      "removeFromArray", "indexOf", "organize", "sum", "min", "max">>
\* The address of the i-th entry of builtins.Builtins (0-based), a package-level object.
BuiltinId(i) == 10 + i
BuiltinAt(i) == Builtin(BuiltinNames[i + 1], BuiltinId(i))

Ret(vm, result) == [vm |-> vm, result |-> result]
NewError(vm, msg) == Ret([vm EXCEPT !.nextId = @ + 1], Error(msg, vm.nextId))
NewInteger(vm, n) == Ret([vm EXCEPT !.nextId = @ + 1], Integer(n, vm.nextId))
RetPanic(vm, why) == Ret(Panic(vm, why), Nil)
WrongArgs(vm, args, want) ==
    NewError(vm, "wrong number of arguments. got=" \o ToString(Len(args))
                 \o ", want=" \o ToString(want))
\* args[i].Type() on a nil interface panics.
NilArg(args, i) == IsNil(args[i + 1])
SetElements(vm, arr, elements) == [vm EXCEPT !.heap[arr.id] = elements]
\* A variant that always removes the first element.
RemoveAt_First(s, i) == Tail(s)
RemoveAt(s, i) == [k \in 1 .. (Len(s) - 1) |-> IF k <= i THEN s[k] ELSE s[k + 1]]

RemoveFromArrayBuiltin(vm, args) ==
    IF Len(args) # 2 THEN WrongArgs(vm, args, 2)
    ELSE IF NilArg(args, 0) THEN RetPanic(vm, "nil pointer dereference")
    ELSE IF Type(args[1]) # ARRAY_OBJ
    THEN NewError(vm, "argument to 'removeFromArray' must be ARRAY, got " \o Type(args[1]))
    ELSE IF NilArg(args, 1) THEN RetPanic(vm, "nil pointer dereference")
    ELSE IF Type(args[2]) # INTEGER_OBJ
    THEN NewError(vm, "index argument to 'removeFromArray' must be INTEGER, got "
                      \o Type(args[2]))
    ELSE LET arr == args[1]
             index == args[2].n
             elements == HeapGet(vm, arr.id)
         IN  IF index < 0 \/ index >= Len(elements)
             THEN NewError(vm, "index out of bounds: " \o ToString(index))
             ELSE Ret(SetElements(vm, arr, RemoveAt(elements, index)), arr)

AddToArrayStartBuiltin(vm, args) ==
    IF Len(args) # 2 THEN WrongArgs(vm, args, 2)
    ELSE IF NilArg(args, 0) THEN RetPanic(vm, "nil pointer dereference")
    ELSE IF Type(args[1]) # ARRAY_OBJ
    THEN NewError(vm, "argument to 'addToArrayStart' must be ARRAY, got " \o Type(args[1]))
    ELSE Ret(SetElements(vm, args[1], <<args[2]>> \o HeapGet(vm, args[1].id)), args[1])

AddToArrayEndBuiltin(vm, args) ==
    IF Len(args) # 2 THEN WrongArgs(vm, args, 2)
    ELSE IF NilArg(args, 0) THEN RetPanic(vm, "nil pointer dereference")
    ELSE IF Type(args[1]) # ARRAY_OBJ
    THEN NewError(vm, "argument to 'addToArrayEnd' must be ARRAY, got " \o Type(args[1]))
    ELSE Ret(SetElements(vm, args[1], Append(HeapGet(vm, args[1].id), args[2])), args[1])

\* The type assertion of x to an Integer pointer succeeds.
IsInteger(o) == ~IsNil(o) /\ Type(o) = INTEGER_OBJ

\* The loops of max and min: best is the element kept so far; a type assertion
\* on an element that is not an Integer panics (the result is then Nil).
RECURSIVE extremeLoop(_, _, _)
extremeLoop(best, rest, wantMax) ==
    IF rest = <<>> THEN best
    ELSE IF ~IsInteger(best) \/ ~IsInteger(Head(rest)) THEN Nil
    ELSE LET el == Head(rest)
             m == IF wantMax THEN (IF best.n > el.n THEN best.n ELSE el.n)
                  ELSE (IF best.n < el.n THEN best.n ELSE el.n)
         IN  extremeLoop(IF m = el.n THEN el ELSE best, Tail(rest), wantMax)

extremeBuiltin(vm, args, name, wantMax) ==
    IF Len(args) # 1 THEN WrongArgs(vm, args, 1)
    ELSE IF NilArg(args, 0) THEN RetPanic(vm, "nil pointer dereference")
    ELSE IF Type(args[1]) # ARRAY_OBJ
    THEN NewError(vm, "argument to '" \o name \o "' must be ARRAY, got " \o Type(args[1]))
    ELSE LET elements == HeapGet(vm, args[1].id) IN
         IF Len(elements) = 0 THEN Ret(vm, Nil)
         ELSE LET r == extremeLoop(elements[1], Tail(elements), wantMax) IN
              IF IsNil(r) THEN RetPanic(vm, "interface conversion") ELSE Ret(vm, r)
MaxBuiltin(vm, args) == extremeBuiltin(vm, args, "max", TRUE)
MinBuiltin(vm, args) == extremeBuiltin(vm, args, "min", FALSE)

ArrayFirstBuiltin(vm, args) ==
    IF Len(args) # 1 THEN WrongArgs(vm, args, 1)
    ELSE IF NilArg(args, 0) THEN RetPanic(vm, "nil pointer dereference")
    ELSE IF Type(args[1]) # ARRAY_OBJ
    THEN NewError(vm, "argument to 'first' must be ARRAY, got " \o Type(args[1]))
    ELSE LET elements == HeapGet(vm, args[1].id) IN
         IF Len(elements) > 0 THEN Ret(vm, elements[1]) ELSE Ret(vm, Nil)

ArrayLastBuiltin(vm, args) ==
    IF Len(args) # 1 THEN WrongArgs(vm, args, 1)
    ELSE IF NilArg(args, 0) THEN RetPanic(vm, "nil pointer dereference")
    ELSE IF Type(args[1]) # ARRAY_OBJ
    THEN NewError(vm, "argument to 'last' must be ARRAY, got " \o Type(args[1]))
    ELSE LET elements == HeapGet(vm, args[1].id) IN
         IF Len(elements) > 0 THEN Ret(vm, elements[Len(elements)]) ELSE Ret(vm, Nil)

AllButFirstBuiltin(vm, args) ==
    IF Len(args) # 1 THEN WrongArgs(vm, args, 1)
    ELSE IF NilArg(args, 0) THEN RetPanic(vm, "nil pointer dereference")
    ELSE IF Type(args[1]) # ARRAY_OBJ
    THEN NewError(vm, "argument to 'allButFirst' must be ARRAY, got " \o Type(args[1]))
    ELSE LET elements == HeapGet(vm, args[1].id) IN
         IF Len(elements) > 0 THEN Ret(NewArray(vm, Tail(elements)), Array(vm.nextId))
         ELSE Ret(vm, Nil)

IsString(o) == ~IsNil(o) /\ Type(o) = STRING_OBJ

\* The loop of indexOf from 0-based position i on: the index found, -1 when the
\* loop ends, or -2 when a type assertion on an element panics.
RECURSIVE indexOfLoop(_, _, _)
indexOfLoop(elements, i, index) ==
    IF i >= Len(elements) THEN -1
    ELSE LET el == At(elements, i) IN
         IF Type(index) = INTEGER_OBJ
         THEN IF ~IsInteger(el) THEN -2
              ELSE IF el.n = index.n THEN i ELSE indexOfLoop(elements, i + 1, index)
         ELSE IF ~IsString(el) THEN -2
              ELSE IF el.s = index.s THEN i ELSE indexOfLoop(elements, i + 1, index)

IndexOfBuiltin(vm, args) ==
    IF Len(args) # 2 THEN WrongArgs(vm, args, 2)
    ELSE IF NilArg(args, 0) THEN RetPanic(vm, "nil pointer dereference")
    ELSE IF Type(args[1]) # ARRAY_OBJ
    THEN NewError(vm, "argument to 'indexOf' must be ARRAY, got " \o Type(args[1]))
    ELSE IF NilArg(args, 1) THEN RetPanic(vm, "nil pointer dereference")
    ELSE IF Type(args[2]) # INTEGER_OBJ /\ Type(args[2]) # STRING_OBJ
    THEN NewError(vm, "index argument to 'indexOf' must be INTEGER, got " \o Type(args[2]))
    ELSE LET r == indexOfLoop(HeapGet(vm, args[1].id), 0, args[2]) IN
         IF r = -2 THEN RetPanic(vm, "interface conversion") ELSE NewInteger(vm, r)

\* sort.Slice by the Integer values: the elements in order of value (ascending, or
\* descending), elements of equal value in their order in the slice.
RECURSIVE insertSorted(_, _, _)
insertSorted(sorted, el, desc) ==
    IF sorted = <<>> THEN <<el>>
    ELSE IF (IF desc THEN el.n > Head(sorted).n ELSE el.n < Head(sorted).n)
    THEN <<el>> \o sorted
    ELSE <<Head(sorted)>> \o insertSorted(Tail(sorted), el, desc)
RECURSIVE sortSlice(_, _)
sortSlice(elements, desc) ==
    IF elements = <<>> THEN <<>>
    ELSE insertSorted(sortSlice(SubSeq(elements, 1, Len(elements) - 1), desc),
                      elements[Len(elements)], desc)

StrAsc == <<97, 115, 99>>
StrDesc == <<100, 101, 115, 99>>

OrganizeBuiltins(vm, args) ==
    IF Len(args) = 0 THEN RetPanic(vm, "index out of range")
    ELSE IF NilArg(args, 0) THEN RetPanic(vm, "nil pointer dereference")
    ELSE IF Type(args[1]) # ARRAY_OBJ
    THEN NewError(vm, "first argument to 'organize' must be ARRAY, got " \o Type(args[1]))
    ELSE IF Len(args) > 1 /\ NilArg(args, 1) THEN RetPanic(vm, "nil pointer dereference")
    ELSE LET by == IF Len(args) > 1 /\ Type(args[2]) = STRING_OBJ THEN args[2].s
                   ELSE StrAsc
             arr == args[1]
             elements == HeapGet(vm, arr.id)
         IN  IF by # StrAsc /\ by # StrDesc THEN Ret(vm, arr)
             ELSE IF Len(elements) >= 2 /\ (\E k \in 1 .. Len(elements) :
                                                ~IsInteger(elements[k]))
             THEN RetPanic(vm, "interface conversion")
             ELSE Ret(SetElements(vm, arr, sortSlice(elements, by = StrDesc)), arr)

\* The loop of sum: the float64 total and whether a Float was seen, or the element
\* that is neither an Integer nor a Float.
RECURSIVE sumLoop(_, _, _)
sumLoop(elements, sum, hasFloat) ==
    IF elements = <<>> THEN [bad |-> Nil, isBad |-> FALSE, sum |-> sum, hasFloat |-> hasFloat]
    ELSE LET el == Head(elements) IN
         IF IsNil(el) \/ Type(el) \notin {INTEGER_OBJ, FLOAT_OBJ}
         THEN [bad |-> el, isBad |-> TRUE, sum |-> sum, hasFloat |-> hasFloat]
         ELSE IF Type(el) = FLOAT_OBJ
         THEN sumLoop(Tail(elements), FAdd(sum, FVal(el)), TRUE)
         ELSE sumLoop(Tail(elements), FAdd(sum, FromInt(el.n)), hasFloat)

SumBuiltin(vm, args) ==
    IF Len(args) # 1 THEN WrongArgs(vm, args, 1)
    ELSE IF NilArg(args, 0) THEN RetPanic(vm, "nil pointer dereference")
    ELSE IF Type(args[1]) # ARRAY_OBJ
    THEN NewError(vm, "argument to 'sum' must be ARRAY, got " \o Type(args[1]))
    ELSE LET r == sumLoop(HeapGet(vm, args[1].id), Fin(0), FALSE) IN
         IF r.isBad
         THEN IF IsNil(r.bad) THEN RetPanic(vm, "nil pointer dereference")
              ELSE NewError(vm, "argument to 'sum' must be INTEGER or FLOAT, got "
                                \o Type(r.bad))
         ELSE IF r.hasFloat
         THEN Ret([vm EXCEPT !.nextId = @ + 1], NewFloat(r.sum, vm.nextId))
         ELSE NewInteger(vm, Wrap(TruncDiv(r.sum.f, FloatScale)))

\* builtin.Fn(args...)
BuiltinFn(vm, builtin, args) ==
    CASE builtin.name = "first" -> ArrayFirstBuiltin(vm, args)
      [] builtin.name = "last" -> ArrayLastBuiltin(vm, args)
      [] builtin.name = "allButFirst" -> AllButFirstBuiltin(vm, args)
      [] builtin.name = "addToArrayStart" -> AddToArrayStartBuiltin(vm, args)
      [] builtin.name = "addToArrayEnd" -> AddToArrayEndBuiltin(vm, args)
      [] builtin.name = "removeFromArray" -> RemoveFromArrayBuiltin(vm, args)
      [] builtin.name = "indexOf" -> IndexOfBuiltin(vm, args)
      [] builtin.name = "organize" -> OrganizeBuiltins(vm, args)
      [] builtin.name = "sum" -> SumBuiltin(vm, args)
      [] builtin.name = "min" -> MinBuiltin(vm, args)
      [] builtin.name = "max" -> MaxBuiltin(vm, args)

\* A variant that pushes what the built-in returned, nil or not.
callBuiltin_PushesNil(vm, builtin, numArgs) ==
    IF ~(0 <= vm.sp - numArgs /\ vm.sp <= StackSize)
    THEN Panic(vm, "slice bounds out of range")
    ELSE LET args == [k \in 1 .. numArgs |-> StackGet(vm, vm.sp - numArgs + k - 1)]
             r == BuiltinFn(vm, builtin, args)
             vm1 == IF r.vm.panic # "" THEN r.vm
                    ELSE [r.vm EXCEPT !.sp = vm.sp - numArgs - 1]
         IN  Ignore(push(vm1, r.result))
callBuiltin(vm, builtin, numArgs) ==
    IF ~(0 <= vm.sp - numArgs /\ vm.sp <= StackSize)
    THEN Panic(vm, "slice bounds out of range")
    ELSE LET args == [k \in 1 .. numArgs |-> StackGet(vm, vm.sp - numArgs + k - 1)]
             r == BuiltinFn(vm, builtin, args)
             vm1 == IF r.vm.panic # "" THEN r.vm
                    ELSE [r.vm EXCEPT !.sp = vm.sp - numArgs - 1]
         IN  IF ~IsNil(r.result) THEN Ignore(push(vm1, r.result))
             ELSE Ignore(push(vm1, Null))

executeCall_SkipsOthers(vm, numArgs) ==
    IF vm.panic # "" THEN vm
    ELSE IF ~InStack(vm.sp - 1 - numArgs) THEN Panic(vm, "index out of range")
    ELSE LET callee == StackGet(vm, vm.sp - 1 - numArgs) IN
         CASE IsNil(callee) -> Panic(vm, "nil pointer dereference")
           [] Type(callee) = CLOSURE_OBJ -> callClosure(vm, callee, numArgs)
           [] Type(callee) = BUILTIN_OBJ -> callBuiltin(vm, callee, numArgs)
           [] OTHER -> vm

executeCall(vm, numArgs) ==
    IF vm.panic # "" THEN vm
    ELSE IF ~InStack(vm.sp - 1 - numArgs) THEN Panic(vm, "index out of range")
    ELSE LET callee == StackGet(vm, vm.sp - 1 - numArgs) IN
         CASE IsNil(callee) -> Panic(vm, "nil pointer dereference")
           [] Type(callee) = CLOSURE_OBJ -> callClosure(vm, callee, numArgs)
           [] Type(callee) = BUILTIN_OBJ -> callBuiltin(vm, callee, numArgs)
           [] OTHER -> Fail(vm, "calling non-function and non-built-in object: "
                                \o Type(callee))

(***************************************************************************)
(* The cases of the switch of Run.  Each takes the machine as it is after  *)
(* vm.currentFrame().ip++ and gives the machine after the case.            *)
(***************************************************************************)
Ip(vm) == currentFrame(vm).ip
Ins(vm) == Instructions(currentFrame(vm))
\* The operand reads of a case panic when the instruction stream ends too early.
Operands(vm, k) == HasOperands(Ins(vm), Ip(vm), k)
NoOperands(vm) == Panic(vm, "index out of range")

caseOpConstant(vm) ==
    IF ~Operands(vm, 2) THEN NoOperands(vm)
    ELSE LET constIndex == ReadUint16(Ins(vm), Ip(vm) + 1)
             vm1 == AddIp(vm, 2)
         IN  IF constIndex >= Len(vm.constants) THEN Panic(vm1, "index out of range")
             ELSE push(vm1, At(vm.constants, constIndex))

\* A variant that writes Null over the slot it pops.
caseOpPop_WritesNull(vm) ==
    IF ~InStack(vm.sp - 1) THEN pop(vm)
    ELSE pop([vm EXCEPT !.stack = StackPut(@, vm.sp - 1, Null)])
caseOpPop(vm) == pop(vm)

\* A variant that leaves ip before the jump itself.
caseOpJump_Stays(vm) ==
    IF ~Operands(vm, 2) THEN NoOperands(vm)
    ELSE SetIp(vm, Ip(vm) - 1)
caseOpJump(vm) ==
    IF ~Operands(vm, 2) THEN NoOperands(vm)
    ELSE SetIp(vm, ReadUint16(Ins(vm), Ip(vm) + 1) - 1)

caseOpJumpNotTruthy(vm) ==
    IF ~Operands(vm, 2) THEN NoOperands(vm)
    ELSE LET pos == ReadUint16(Ins(vm), Ip(vm) + 1)
             vm1 == AddIp(vm, 2)
             condition == Top(vm1)
             vm2 == pop(vm1)
         IN  IF ~isTruthy(condition) THEN SetIp(vm2, pos - 1) ELSE vm2

caseOpSetGlobal(vm) ==
    IF ~Operands(vm, 2) THEN NoOperands(vm)
    ELSE LET globalIndex == ReadUint16(Ins(vm), Ip(vm) + 1)
             vm1 == AddIp(vm, 2)
             vm2 == pop(vm1)
         IN  IF vm2.panic # "" THEN vm2
             ELSE [vm2 EXCEPT !.globals = MapPut(@, globalIndex, Top(vm1))]

GlobalGet(vm, i) == IF i \in DOMAIN vm.globals THEN vm.globals[i] ELSE Nil
caseOpGetGlobal(vm) ==
    IF ~Operands(vm, 2) THEN NoOperands(vm)
    ELSE LET globalIndex == ReadUint16(Ins(vm), Ip(vm) + 1)
         IN  push(AddIp(vm, 2), GlobalGet(vm, globalIndex))

caseOpArray(vm) ==
    IF ~Operands(vm, 2) THEN NoOperands(vm)
    ELSE LET numElements == ReadUint16(Ins(vm), Ip(vm) + 1)
             vm1 == AddIp(vm, 2)
             vm2 == buildArray(vm1, vm1.sp - numElements, vm1.sp)
         IN  IF vm2.panic # "" THEN vm2
             ELSE push([vm2 EXCEPT !.sp = @ - numElements], Array(vm1.nextId))

caseOpDict_PopsBeforeError(vm) ==
    IF ~Operands(vm, 2) THEN NoOperands(vm)
    ELSE LET numElements == ReadUint16(Ins(vm), Ip(vm) + 1)
             vm1 == AddIp(vm, 2)
             r == buildDict(vm1, vm1.sp - numElements, vm1.sp)
         IN  IF r.vm.panic # "" THEN r.vm
             ELSE IF Failed(r.vm) THEN [r.vm EXCEPT !.sp = @ - numElements]
             ELSE push([r.vm EXCEPT !.sp = @ - numElements, !.nextId = @ + 1],
                       Dict(r.Pairs, r.vm.nextId))

caseOpDict(vm) ==
    IF ~Operands(vm, 2) THEN NoOperands(vm)
    ELSE LET numElements == ReadUint16(Ins(vm), Ip(vm) + 1)
             vm1 == AddIp(vm, 2)
             r == buildDict(vm1, vm1.sp - numElements, vm1.sp)
         IN  IF Failed(r.vm) THEN r.vm
             ELSE push([r.vm EXCEPT !.sp = @ - numElements, !.nextId = @ + 1],
                       Dict(r.Pairs, r.vm.nextId))

caseOpIndex(vm) ==
    LET index == Top(vm)
        vm1 == pop(vm)
        left == Top(vm1)
        vm2 == pop(vm1)
    IN  executeIndexExpression(vm2, left, index)

caseOpCall(vm) ==
    IF ~Operands(vm, 1) THEN NoOperands(vm)
    ELSE LET numArgs == ReadUint8(Ins(vm), Ip(vm) + 1)
         IN  executeCall(AddIp(vm, 1), numArgs)

caseOpReturnValue_KeepsCallee(vm) ==
    LET returnValue == Top(vm)
        vm1 == pop(vm)
        frame == PoppedFrame(vm1)
        vm2 == popFrame(vm1)
    IN  IF vm2.panic # "" THEN vm2
        ELSE IF frame.basePointer = 0
        THEN push([vm2 EXCEPT !.sp = frame.basePointer - 1], returnValue)
        ELSE push([vm2 EXCEPT !.sp = frame.basePointer], returnValue)

\* After popFrame the caller's frame is current; sp drops below the callee slot.
caseOpReturnValue(vm) ==
    LET returnValue == Top(vm)
        vm1 == pop(vm)
        frame == PoppedFrame(vm1)
        vm2 == popFrame(vm1)
    IN  IF vm2.panic # "" THEN vm2
        ELSE push([vm2 EXCEPT !.sp = frame.basePointer - 1], returnValue)

caseOpReturn(vm) ==
    LET frame == PoppedFrame(vm)
        vm1 == popFrame(vm)
    IN  IF vm1.panic # "" THEN vm1
        ELSE push([vm1 EXCEPT !.sp = frame.basePointer - 1], Null)

\* A variant that takes the index of the local from the bottom of the stack.
caseOpSetLocal_NoBase(vm) ==
    IF ~Operands(vm, 1) THEN NoOperands(vm)
    ELSE LET localIndex == ReadUint8(Ins(vm), Ip(vm) + 1)
             vm1 == AddIp(vm, 1)
             vm2 == pop(vm1)
         IN  IF vm2.panic # "" THEN vm2
             ELSE IF ~InStack(localIndex) THEN Panic(vm2, "index out of range")
             ELSE [vm2 EXCEPT !.stack = StackPut(@, localIndex, Top(vm1))]
caseOpSetLocal(vm) ==
    IF ~Operands(vm, 1) THEN NoOperands(vm)
    ELSE LET localIndex == ReadUint8(Ins(vm), Ip(vm) + 1)
             vm1 == AddIp(vm, 1)
             frame == currentFrame(vm1)
             vm2 == pop(vm1)
         IN  IF vm2.panic # "" THEN vm2
             ELSE IF ~InStack(frame.basePointer + localIndex)
             THEN Panic(vm2, "index out of range")
             ELSE [vm2 EXCEPT !.stack = StackPut(@, frame.basePointer + localIndex,
                                                 Top(vm1))]

caseOpGetLocal(vm) ==
    IF ~Operands(vm, 1) THEN NoOperands(vm)
    ELSE LET localIndex == ReadUint8(Ins(vm), Ip(vm) + 1)
             vm1 == AddIp(vm, 1)
             frame == currentFrame(vm1)
         IN  IF ~InStack(frame.basePointer + localIndex)
             THEN Panic(vm1, "index out of range")
             ELSE push(vm1, StackGet(vm1, frame.basePointer + localIndex))

caseOpGetBuiltin(vm) ==
    IF ~Operands(vm, 1) THEN NoOperands(vm)
    ELSE LET builtinIndex == ReadUint8(Ins(vm), Ip(vm) + 1)
             vm1 == AddIp(vm, 1)
         IN  IF builtinIndex >= Len(BuiltinNames) THEN Panic(vm1, "index out of range")
             ELSE push(vm1, BuiltinAt(builtinIndex))

caseOpClosure(vm) ==
    IF ~Operands(vm, 3) THEN NoOperands(vm)
    ELSE LET constIndex == ReadUint16(Ins(vm), Ip(vm) + 1)
             numFree == ReadUint8(Ins(vm), Ip(vm) + 3)
         IN  pushClosure(AddIp(vm, 3), constIndex, numFree)

caseOpGetFree(vm) ==
    IF ~Operands(vm, 1) THEN NoOperands(vm)
    ELSE LET freeIndex == ReadUint8(Ins(vm), Ip(vm) + 1)
             vm1 == AddIp(vm, 1)
             currentClosure == currentFrame(vm1).cl
         IN  IF freeIndex >= Len(currentClosure.Free)
             THEN Panic(vm1, "index out of range")
             ELSE push(vm1, At(currentClosure.Free, freeIndex))

caseOpCurrentClosure(vm) == push(vm, currentFrame(vm).cl)

\* The jump is taken whatever the condition: the second assignment is unconditional.
\* A variant that jumps only when the condition is falsy.
caseOpWhile_OnlyWhenFalsy(vm) ==
    IF ~Operands(vm, 2) THEN NoOperands(vm)
    ELSE LET pos == ReadUint16(Ins(vm), Ip(vm) + 1)
             vm1 == AddIp(vm, 2)
             condition == Top(vm1)
             vm2 == pop(vm1)
         IN  IF ~isTruthy(condition) THEN SetIp(vm2, pos - 1) ELSE vm2
caseOpWhile(vm) ==
    IF ~Operands(vm, 2) THEN NoOperands(vm)
    ELSE LET pos == ReadUint16(Ins(vm), Ip(vm) + 1)
             vm1 == AddIp(vm, 2)
             condition == Top(vm1)
             vm2 == pop(vm1)
             vm3 == IF ~isTruthy(condition) THEN SetIp(vm2, pos - 1) ELSE vm2
         IN  SetIp(vm3, pos - 1)

\* Attribute names of a Date, as bytes.
StrHour == <<104, 111, 117, 114>>
StrMinute == <<109, 105, 110, 117, 116, 101>>
StrDay == <<100, 97, 121>>
StrSecond == <<115, 101, 99, 111, 110, 100>>
StrMonth == <<109, 111, 110, 116, 104>>
StrYear == <<121, 101, 97, 114>>
StrFullDate == <<102, 117, 108, 108, 68, 97, 116, 101>>

\* The pushes of this case drop their error.
caseOpGetAttr(vm) ==
    LET attrNameObj == Top(vm)
        vm1 == pop(vm)
        obj == Top(vm1)
        vm2 == pop(vm1)
    IN  IF vm1.panic # "" THEN vm1
        ELSE IF IsNil(attrNameObj) THEN Panic(vm1, "nil pointer dereference")
        ELSE IF Type(attrNameObj) # STRING_OBJ
        THEN Fail(vm1, "attribute name must be a string, got " \o Type(attrNameObj))
        ELSE IF vm2.panic # "" THEN vm2
        ELSE IF IsNil(obj) THEN Panic(vm2, "nil pointer dereference")
        ELSE IF Type(obj) # DATE_OBJ
        THEN Fail(vm2, "object type " \o Type(obj) \o " has no attributes")
        ELSE CASE attrNameObj.s = StrHour -> Ignore(pushInteger(vm2, obj.Hour))
               [] attrNameObj.s = StrMinute -> Ignore(pushInteger(vm2, obj.Minute))
               [] attrNameObj.s = StrDay -> Ignore(pushInteger(vm2, obj.Day))
               [] attrNameObj.s = StrSecond -> Ignore(pushInteger(vm2, obj.Second))
               [] attrNameObj.s = StrMonth -> Ignore(pushInteger(vm2, obj.Month))
               [] attrNameObj.s = StrYear -> Ignore(pushInteger(vm2, obj.Year))
               [] attrNameObj.s = StrFullDate -> Ignore(pushString(vm2, obj.FullDate))
               [] OTHER -> Fail(vm2, "unknown attribute " \o ToString(attrNameObj.s)
                                     \o " for Date")

(***************************************************************************)
(* The compiler (package compiler), for programs without free variables:   *)
(* expression and assignment statements, return, literals, prefix and      *)
(* infix operators, if, identifiers (global, local, built-in, the function *)
(* itself), arrays, dicts, indexing, function literals and calls.          *)
(***************************************************************************)
IntLit(n) == [node |-> "IntegerLiteral", Value |-> n]
BoolLit(b) == [node |-> "BooleanLiteral", Value |-> b]
StrLit(s) == [node |-> "StringLiteral", Value |-> s]
Prefix(op, right) == [node |-> "PrefixExpression", Operator |-> op, Right |-> right]
Infix(left, op, right) ==
    [node |-> "InfixExpression", Operator |-> op, Left |-> left, Right |-> right]
If(cond, cons) ==
    [node |-> "IfExpression", Condition |-> cond, Consequence |-> cons,
     HasAlternative |-> FALSE, Alternative |-> <<>>]
IfElse(cond, cons, alt) ==
    [node |-> "IfExpression", Condition |-> cond, Consequence |-> cons,
     HasAlternative |-> TRUE, Alternative |-> alt]
Ident(name) == [node |-> "Identifier", Name |-> name]
ArrayLit(elements) == [node |-> "ArrayLiteral", Elements |-> elements]
DictLit(pairs) == [node |-> "DictLiteral", Pairs |-> pairs]
Index(left, index) == [node |-> "IndexExpression", Left |-> left, Index |-> index]
Fct(name, params, body) ==
    [node |-> "FunctionLiteral", Name |-> name, Parameters |-> params, Body |-> body]
Call(fn, args) == [node |-> "CallExpression", Function |-> fn, Arguments |-> args]
ExprStmt(e) == [node |-> "ExpressionStatement", Expression |-> e]
Assign(name, value) == [node |-> "AssignStatement", Name |-> name, Value |-> value]
Return(value) == [node |-> "ReturnStatement", HasValue |-> TRUE, Value |-> value]
ReturnNothing == [node |-> "ReturnStatement", HasValue |-> FALSE, Value |-> <<>>]

\* The address of the i-th constant of a bytecode bundle (0-based).
ConstantId(i) == 100 + i

NoInstruction == [op |-> -1, pos |-> 0]
NewCompiler ==
    [ins |-> <<>>, consts |-> <<>>, last |-> NoInstruction, prev |-> NoInstruction,
     globalSyms |-> <<>>, localSyms |-> <<>>, inFn |-> FALSE, fnName |-> "",
     failed |-> FALSE]

emit(c, op, operands) ==
    [c EXCEPT !.ins = @ \o Make(op, operands), !.prev = c.last,
              !.last = [op |-> op, pos |-> Len(c.ins)]]
addConstant(c, obj) == [c EXCEPT !.consts = Append(@, obj)]
lastInstructionIs(c, op) == Len(c.ins) > 0 /\ c.last.op = op
removeLastPop(c) ==
    [c EXCEPT !.ins = SubSeq(@, 1, c.last.pos), !.last = c.prev]
changeOperand(c, pos, operand) ==
    [c EXCEPT !.ins = [k \in 1 .. Len(@) |->
                         IF k = pos + 2 THEN PutUint16(operand)[1]
                         ELSE IF k = pos + 3 THEN PutUint16(operand)[2]
                         ELSE @[k]]]
replaceLastPopWithReturn(c) ==
    [c EXCEPT !.ins = [@ EXCEPT ![c.last.pos + 1] = OpReturnValue],
              !.last = [op |-> OpReturnValue, pos |-> c.last.pos]]

\* The latest definition of name in a scope's store (0-based), or -1.
RECURSIVE LastIndexOf(_, _)
LastIndexOf(names, name) ==
    IF names = <<>> THEN -1
    ELSE IF names[Len(names)] = name THEN Len(names) - 1
    ELSE LastIndexOf(SubSeq(names, 1, Len(names) - 1), name)

\* Resolve: the instruction that loads the identifier, or a compile error.
loadSymbol(c, name) ==
    CASE c.inFn /\ LastIndexOf(c.localSyms, name) >= 0 ->
            emit(c, OpGetLocal, <<LastIndexOf(c.localSyms, name)>>)
      [] c.inFn /\ c.fnName = name -> emit(c, OpCurrentClosure, <<>>)
      [] LastIndexOf(c.globalSyms, name) >= 0 ->
            emit(c, OpGetGlobal, <<LastIndexOf(c.globalSyms, name)>>)
      [] LastIndexOf(BuiltinNames, name) >= 0 ->
            emit(c, OpGetBuiltin, <<LastIndexOf(BuiltinNames, name)>>)
      [] OTHER -> [c EXCEPT !.failed = TRUE]

InfixOpcode(operator) ==
    CASE operator = "+" -> OpAdd [] operator = "-" -> OpSub [] operator = "*" -> OpMul
      [] operator = "/" -> OpDiv [] operator = "%" -> OpMod
      [] operator = ">" -> OpGreaterThan [] operator = "<" -> OpGreaterThan
      [] operator = ">=" -> OpGreaterThanOrEqual [] operator = "<=" -> OpGreaterThanOrEqual
      [] operator = "==" -> OpEqual [] operator = "!=" -> OpNotEqual
      [] operator = "&&" -> OpAnd [] operator = "||" -> OpOr

RECURSIVE compileExpression(_, _)
RECURSIVE compileStatement(_, _)
RECURSIVE compileStatements(_, _)
RECURSIVE compileExpressions(_, _)
RECURSIVE compilePairs(_, _)

compileStatements(c, statements) ==
    IF statements = <<>> THEN c
    ELSE compileStatements(compileStatement(c, Head(statements)), Tail(statements))

compileExpressions(c, expressions) ==
    IF expressions = <<>> THEN c
    ELSE compileExpressions(compileExpression(c, Head(expressions)), Tail(expressions))

\* The pairs of a dict literal are compiled in the order of the string form of their
\* keys; DictLit lists them in that order.
compilePairs(c, pairs) ==
    IF pairs = <<>> THEN c
    ELSE compilePairs(compileExpression(compileExpression(c, Head(pairs)[1]),
                                        Head(pairs)[2]),
                      Tail(pairs))

\* A block whose value stays on the stack: its trailing OpPop is removed.
compileBlockValue(c, block) ==
    LET c1 == compileStatements(c, block)
    IN  IF lastInstructionIs(c1, OpPop) THEN removeLastPop(c1) ELSE c1

compileIf(c, e) ==
    LET c1 == compileExpression(c, e.Condition)
        c2 == emit(c1, OpJumpNotTruthy, <<9999>>)
        jumpNotTruthyPos == c2.last.pos
        c3 == compileBlockValue(c2, e.Consequence)
        c4 == emit(c3, OpJump, <<9999>>)
        jumpPos == c4.last.pos
        c5 == changeOperand(c4, jumpNotTruthyPos, Len(c4.ins))
        c6 == IF e.HasAlternative THEN compileBlockValue(c5, e.Alternative)
              ELSE emit(c5, OpNull, <<>>)
    IN  changeOperand(c6, jumpPos, Len(c6.ins))

compileFunctionLiteral(c, e) ==
    LET inner == [NewCompiler EXCEPT !.consts = c.consts, !.globalSyms = c.globalSyms,
                                     !.localSyms = e.Parameters, !.inFn = TRUE,
                                     !.fnName = e.Name, !.failed = c.failed]
        b1 == compileStatements(inner, e.Body)
        b2 == IF lastInstructionIs(b1, OpPop) THEN replaceLastPopWithReturn(b1) ELSE b1
        b3 == IF lastInstructionIs(b2, OpReturnValue) THEN b2 ELSE emit(b2, OpReturn, <<>>)
        fnIndex == Len(b3.consts)
        compiledFn == CompiledFunction(b3.ins, Len(b3.localSyms), Len(e.Parameters),
                                       ConstantId(fnIndex))
        c1 == [c EXCEPT !.consts = Append(b3.consts, compiledFn),
                        !.failed = b3.failed]
    IN  emit(c1, OpClosure, <<fnIndex, 0>>)

compileExpression(c, e) ==
    CASE e.node = "IntegerLiteral" ->
            emit(addConstant(c, Integer(e.Value, ConstantId(Len(c.consts)))),
                 OpConstant, <<Len(c.consts)>>)
      [] e.node = "StringLiteral" ->
            emit(addConstant(c, String(e.Value, ConstantId(Len(c.consts)))),
                 OpConstant, <<Len(c.consts)>>)
      [] e.node = "BooleanLiteral" ->
            emit(c, IF e.Value THEN OpTrue ELSE OpFalse, <<>>)
      [] e.node = "PrefixExpression" ->
            emit(compileExpression(c, e.Right),
                 IF e.Operator = "!" THEN OpBang ELSE OpMinus, <<>>)
      [] e.node = "InfixExpression" ->
            IF e.Operator \in {"<", "<="}
            THEN emit(compileExpression(compileExpression(c, e.Right), e.Left),
                      InfixOpcode(e.Operator), <<>>)
            ELSE emit(compileExpression(compileExpression(c, e.Left), e.Right),
                      InfixOpcode(e.Operator), <<>>)
      [] e.node = "IfExpression" -> compileIf(c, e)
      [] e.node = "Identifier" -> loadSymbol(c, e.Name)
      [] e.node = "ArrayLiteral" ->
            emit(compileExpressions(c, e.Elements), OpArray, <<Len(e.Elements)>>)
      [] e.node = "DictLiteral" ->
            emit(compilePairs(c, e.Pairs), OpDict, <<2 * Len(e.Pairs)>>)
      [] e.node = "IndexExpression" ->
            emit(compileExpression(compileExpression(c, e.Left), e.Index), OpIndex, <<>>)
      [] e.node = "FunctionLiteral" -> compileFunctionLiteral(c, e)
      [] e.node = "CallExpression" ->
            emit(compileExpressions(compileExpression(c, e.Function), e.Arguments),
                 OpCall, <<Len(e.Arguments)>>)

compileStatement(c, s) ==
    CASE s.node = "ExpressionStatement" ->
            emit(compileExpression(c, s.Expression), OpPop, <<>>)
      [] s.node = "AssignStatement" ->
            LET c1 == compileExpression(c, s.Value) IN
            IF c.inFn
            THEN emit([c1 EXCEPT !.localSyms = Append(@, s.Name)],
                      OpSetLocal, <<Len(c1.localSyms)>>)
            ELSE emit([c1 EXCEPT !.globalSyms = Append(@, s.Name)],
                      OpSetGlobal, <<Len(c1.globalSyms)>>)
      [] s.node = "ReturnStatement" ->
            IF s.HasValue THEN emit(compileExpression(c, s.Value), OpReturnValue, <<>>)
            ELSE emit(c, OpReturn, <<>>)

\* Compile and Bytecode: the bundle of a program.
Bytecode(statements) ==
    LET c == compileStatements(NewCompiler, statements)
    IN  [Instructions |-> c.ins, Constants |-> c.consts, failed |-> c.failed]

(***************************************************************************)
(* The test tables of the VM (vm_test.go): the parsed input and the        *)
(* expected value of each case, and testExpectedObject.                    *)
(***************************************************************************)
ExpInt(n) == [kind |-> "int", int |-> n]
ExpBool(b) == [kind |-> "bool", bool |-> b]
ExpNull == [kind |-> "null"]
ExpString(s) == [kind |-> "string", bytes |-> s]
ExpInts(ns) == [kind |-> "ints", ints |-> ns]
ExpDict(m) == [kind |-> "dict", pairs |-> m]
\* No expectation: the program is not a case of the tables.
ExpNone == [kind |-> "none"]

testIntegerObject(expected, actual) == IsInteger(actual) /\ actual.n = expected
testBooleanObject(expected, actual) ==
    ~IsNil(actual) /\ Type(actual) = BOOLEAN_OBJ /\ actual.b = expected
testStringObject(expected, actual) == IsString(actual) /\ actual.s = expected

\* Whether testExpectedObject reports no error for the object the machine left.
testExpectedObject(vm, expected, actual) ==
    CASE expected.kind = "int" -> testIntegerObject(expected.int, actual)
      [] expected.kind = "bool" -> testBooleanObject(expected.bool, actual)
      [] expected.kind = "null" -> SameObject(actual, Null)
      [] expected.kind = "string" -> testStringObject(expected.bytes, actual)
      [] expected.kind = "ints" ->
            /\ ~IsNil(actual) /\ Type(actual) = ARRAY_OBJ
            /\ Len(HeapGet(vm, actual.id)) = Len(expected.ints)
            /\ \A i \in 1 .. Len(expected.ints) :
                    testIntegerObject(expected.ints[i], HeapGet(vm, actual.id)[i])
      [] expected.kind = "dict" ->
            /\ ~IsNil(actual) /\ Type(actual) = DICT_OBJ
            /\ Cardinality(DOMAIN actual.Pairs) = Cardinality(DOMAIN expected.pairs)
            /\ \A k \in DOMAIN expected.pairs :
                    /\ k \in DOMAIN actual.Pairs
                    /\ testIntegerObject(expected.pairs[k], actual.Pairs[k].Value)
      [] OTHER -> TRUE

Case(input, expected) == [input |-> input, expected |-> expected]
\* An input of one expression statement.
Expr(e) == <<ExprStmt(e)>>
I(n) == IntLit(n)

TestIntegerArithmetic ==
    << Case(Expr(I(1)), ExpInt(1)),
       Case(Expr(Infix(I(1), "+", I(2))), ExpInt(3)),
       Case(Expr(Infix(I(1), "-", I(2))), ExpInt(-1)),
       Case(Expr(Infix(I(1), "*", I(2))), ExpInt(2)),
       Case(Expr(Infix(I(4), "/", I(2))), ExpInt(2)),
       Case(Expr(Infix(Infix(Infix(Infix(I(50), "/", I(2)), "*", I(2)), "+", I(10)),
                       "-", I(5))), ExpInt(55)),
       Case(Expr(Infix(I(5), "*", Infix(I(2), "+", I(10)))), ExpInt(60)),
       Case(Expr(Prefix("-", I(5))), ExpInt(-5)),
       Case(Expr(Infix(Infix(Prefix("-", I(50)), "+", I(100)), "+", Prefix("-", I(50)))),
            ExpInt(0)) >>

TestBooleanExpressions ==
    << Case(Expr(BoolLit(TRUE)), ExpBool(TRUE)),
       Case(Expr(BoolLit(FALSE)), ExpBool(FALSE)),
       Case(Expr(Infix(I(1), "<", I(2))), ExpBool(TRUE)),
       Case(Expr(Infix(I(1), ">", I(2))), ExpBool(FALSE)),
       Case(Expr(Infix(I(1), "<", I(1))), ExpBool(FALSE)),
       Case(Expr(Infix(I(1), "==", I(1))), ExpBool(TRUE)),
       Case(Expr(Infix(I(1), "!=", I(1))), ExpBool(FALSE)),
       Case(Expr(Infix(I(1), "!=", I(2))), ExpBool(TRUE)),
       Case(Expr(Infix(BoolLit(TRUE), "==", BoolLit(TRUE))), ExpBool(TRUE)),
       Case(Expr(Infix(BoolLit(TRUE), "==", BoolLit(FALSE))), ExpBool(FALSE)),
       Case(Expr(Infix(BoolLit(FALSE), "!=", BoolLit(TRUE))), ExpBool(TRUE)),
       Case(Expr(Infix(Infix(I(1), "<", I(2)), "==", BoolLit(TRUE))), ExpBool(TRUE)),
       Case(Expr(Infix(Infix(I(1), ">", I(2)), "==", BoolLit(TRUE))), ExpBool(FALSE)),
       Case(Expr(Prefix("!", BoolLit(TRUE))), ExpBool(FALSE)),
       Case(Expr(Prefix("!", I(5))), ExpBool(FALSE)),
       Case(Expr(Prefix("!", Prefix("!", I(5)))), ExpBool(TRUE)),
       Case(Expr(Prefix("!", If(BoolLit(FALSE), Expr(I(5))))), ExpBool(TRUE)) >>

TestConditionals ==
    << Case(Expr(If(BoolLit(TRUE), Expr(I(10)))), ExpInt(10)),
       Case(Expr(IfElse(BoolLit(TRUE), Expr(I(10)), Expr(I(20)))), ExpInt(10)),
       Case(Expr(IfElse(BoolLit(FALSE), Expr(I(10)), Expr(I(20)))), ExpInt(20)),
       Case(Expr(If(I(1), Expr(I(10)))), ExpInt(10)),
       Case(Expr(IfElse(Infix(I(1), "<", I(2)), Expr(I(10)), Expr(I(20)))), ExpInt(10)),
       Case(Expr(IfElse(Infix(I(1), ">", I(2)), Expr(I(10)), Expr(I(20)))), ExpInt(20)),
       Case(Expr(If(Infix(I(1), ">", I(2)), Expr(I(10)))), ExpNull),
       Case(Expr(If(BoolLit(FALSE), Expr(I(10)))), ExpNull),
       Case(Expr(IfElse(If(BoolLit(FALSE), Expr(I(10))), Expr(I(10)), Expr(I(20)))),
            ExpInt(20)) >>

TestGlobalVarStatements ==
    << Case(<<Assign("one", I(1)), ExprStmt(Ident("one"))>>, ExpInt(1)),
       Case(<<Assign("one", I(1)), Assign("two", I(2)),
              ExprStmt(Infix(Ident("one"), "+", Ident("two")))>>, ExpInt(3)),
       Case(<<Assign("one", I(1)), Assign("two", Infix(Ident("one"), "+", Ident("one"))),
              ExprStmt(Infix(Ident("one"), "+", Ident("two")))>>, ExpInt(3)) >>

StrVa == <<86, 97>>
StrJa == <<106, 97>>
StrLang == <<108, 97, 110, 103>>
TestStringExpressions ==
    << Case(Expr(StrLit(StrVa \o StrJa)), ExpString(StrVa \o StrJa)),
       Case(Expr(Infix(StrLit(StrVa), "+", StrLit(StrJa))), ExpString(StrVa \o StrJa)),
       Case(Expr(Infix(Infix(StrLit(StrVa), "+", StrLit(StrJa)), "+", StrLit(StrLang))),
            ExpString(StrVa \o StrJa \o StrLang)) >>

TestArrayLiterals ==
    << Case(Expr(ArrayLit(<<>>)), ExpInts(<<>>)),
       Case(Expr(ArrayLit(<<I(1), I(2), I(3)>>)), ExpInts(<<1, 2, 3>>)),
       Case(Expr(ArrayLit(<<Infix(I(1), "+", I(2)), Infix(I(3), "*", I(4)),
                            Infix(I(5), "+", I(6))>>)), ExpInts(<<3, 12, 11>>)) >>

IntKey(n) == IntegerDictKey(Integer(n, 0))
TestDictLiterals ==
    << Case(Expr(DictLit(<<>>)), ExpDict(EmptyMap)),
       Case(Expr(DictLit(<< <<I(1), I(2)>>, <<I(2), I(3)>> >>)),
            ExpDict(MapPut(MapPut(EmptyMap, IntKey(1), 2), IntKey(2), 3))),
       Case(Expr(DictLit(<< <<Infix(I(1), "+", I(1)), Infix(I(2), "*", I(2))>>,
                            <<Infix(I(3), "+", I(3)), Infix(I(4), "*", I(4))>> >>)),
            ExpDict(MapPut(MapPut(EmptyMap, IntKey(2), 4), IntKey(6), 16))) >>

Dict12 == DictLit(<< <<I(1), I(1)>>, <<I(2), I(2)>> >>)
TestIndexExpressions ==
    << Case(Expr(Index(ArrayLit(<<I(1), I(2), I(3)>>), I(1))), ExpInt(2)),
       Case(Expr(Index(ArrayLit(<<I(1), I(2), I(3)>>), Infix(I(0), "+", I(2)))), ExpInt(3)),
       Case(Expr(Index(Index(ArrayLit(<<ArrayLit(<<I(1), I(1), I(1)>>)>>), I(0)), I(0))),
            ExpInt(1)),
       Case(Expr(Index(ArrayLit(<<>>), I(0))), ExpNull),
       Case(Expr(Index(ArrayLit(<<I(1), I(2), I(3)>>), I(99))), ExpNull),
       Case(Expr(Index(ArrayLit(<<I(1)>>), Prefix("-", I(1)))), ExpNull),
       Case(Expr(Index(Dict12, I(1))), ExpInt(1)),
       Case(Expr(Index(Dict12, I(2))), ExpInt(2)),
       Case(Expr(Index(DictLit(<< <<I(1), I(1)>> >>), I(0))), ExpNull),
       Case(Expr(Index(DictLit(<<>>), I(0))), ExpNull) >>

TestCallingFunctionsWithoutArguments ==
    << Case(<<Assign("fivePlusTen",
                     Fct("fivePlusTen", <<>>, Expr(Infix(I(5), "+", I(10))))),
              ExprStmt(Call(Ident("fivePlusTen"), <<>>))>>, ExpInt(15)),
       Case(<<Assign("one", Fct("one", <<>>, Expr(I(1)))),
              Assign("two", Fct("two", <<>>, Expr(I(2)))),
              ExprStmt(Infix(Call(Ident("one"), <<>>), "+", Call(Ident("two"), <<>>)))>>,
            ExpInt(3)),
       Case(<<Assign("a", Fct("a", <<>>, Expr(I(1)))),
              Assign("b", Fct("b", <<>>, Expr(Infix(Call(Ident("a"), <<>>), "+", I(1))))),
              Assign("c", Fct("c", <<>>, Expr(Infix(Call(Ident("b"), <<>>), "+", I(1))))),
              ExprStmt(Call(Ident("c"), <<>>))>>, ExpInt(3)) >>

TestFunctionsWithReturnStatement ==
    << Case(<<Assign("earlyExit",
                     Fct("earlyExit", <<>>, <<Return(I(99)), ExprStmt(I(100))>>)),
              ExprStmt(Call(Ident("earlyExit"), <<>>))>>, ExpInt(99)),
       Case(<<Assign("earlyExit",
                     Fct("earlyExit", <<>>, <<Return(I(99)), Return(I(100))>>)),
              ExprStmt(Call(Ident("earlyExit"), <<>>))>>, ExpInt(99)) >>

TestFunctionsWithoutReturnValue ==
    << Case(<<Assign("noReturn", Fct("noReturn", <<>>, <<>>)),
              ExprStmt(Call(Ident("noReturn"), <<>>))>>, ExpNull),
       Case(<<Assign("noReturn", Fct("noReturn", <<>>, <<>>)),
              Assign("noReturnTwo",
                     Fct("noReturnTwo", <<>>, Expr(Call(Ident("noReturn"), <<>>)))),
              ExprStmt(Call(Ident("noReturn"), <<>>)),
              ExprStmt(Call(Ident("noReturnTwo"), <<>>))>>, ExpNull) >>

TestFirstClassFunctions ==
    << Case(<<Assign("returnsOne", Fct("returnsOne", <<>>, Expr(I(1)))),
              Assign("returnsOneReturner",
                     Fct("returnsOneReturner", <<>>, Expr(Ident("returnsOne")))),
              ExprStmt(Call(Call(Ident("returnsOneReturner"), <<>>), <<>>))>>,
            ExpInt(1)) >>

\* An expected error object, which the tables have no case of.
ExpError(msg) == [kind |-> "error", msg |-> msg]
\* Whether the object the machine left is the expected one.
IsExpected(vm, expected, actual) ==
    IF expected.kind = "error"
    THEN ~IsNil(actual) /\ Type(actual) = ERROR_OBJ /\ actual.msg = expected.msg
    ELSE testExpectedObject(vm, expected, actual)

(***************************************************************************)
(* Further inputs, compiled like the cases of the tables.                  *)
(***************************************************************************)
Arr123 == ArrayLit(<<I(1), I(2), I(3)>>)
ExtraCases ==
    << \* no statement, and no expression statement at the end
       Case(<<>>, ExpNone),
       Case(<<Assign("one", I(1))>>, ExpNone),
       Case(<<ExprStmt(I(5)), Assign("x", I(6))>>, ExpNone),
       \* calls with arguments and locals
       Case(<<Assign("add", Fct("add", <<"a", "b">>,
                                <<Assign("c", Infix(Ident("a"), "+", Ident("b"))),
                                  ExprStmt(Ident("c"))>>)),
              ExprStmt(Infix(Call(Ident("add"), <<I(1), I(2)>>), "+",
                             Call(Ident("add"), <<I(3), I(4)>>)))>>, ExpInt(10)),
       Case(<<Assign("id", Fct("id", <<"a">>, <<Return(Ident("a")), ExprStmt(I(7))>>)),
              ExprStmt(ArrayLit(<<I(9), Call(Ident("id"), <<I(8)>>)>>))>>,
            ExpInts(<<9, 8>>)),
       Case(<<Assign("nothing", Fct("nothing", <<"a", "b">>, <<ReturnNothing>>)),
              ExprStmt(Call(Ident("nothing"), <<I(1), I(2)>>))>>, ExpNull),
       \* built-in calls
       Case(Expr(Call(Ident("first"), <<Arr123>>)), ExpInt(1)),
       Case(Expr(Call(Ident("last"), <<ArrayLit(<<>>)>>)), ExpNull),
       Case(Expr(Call(Ident("addToArrayEnd"), <<Arr123, I(4)>>)), ExpInts(<<1, 2, 3, 4>>)),
       Case(Expr(ArrayLit(<<I(7), Call(Ident("max"), <<Arr123>>)>>)), ExpInts(<<7, 3>>)),
       Case(Expr(Call(Ident("first"), <<>>)),
            ExpError("wrong number of arguments. got=0, want=1")),
       Case(Expr(Call(Ident("sum"), <<I(1), I(2), I(3)>>)),
            ExpError("wrong number of arguments. got=3, want=1")),
       \* wrong number of arguments
       Case(<<Assign("one", Fct("one", <<"a">>, Expr(Ident("a")))),
              ExprStmt(Call(Ident("one"), <<>>))>>, ExpNone),
       Case(<<Assign("none", Fct("none", <<>>, Expr(I(1)))),
              ExprStmt(ArrayLit(<<I(5), Call(Ident("none"), <<I(1), I(2)>>)>>))>>, ExpNone),
       \* callees that are no functions
       Case(Expr(Call(I(5), <<>>)), ExpNone),
       Case(Expr(ArrayLit(<<I(1), Call(BoolLit(TRUE), <<I(2), I(3)>>)>>)), ExpNone),
       Case(Expr(Call(Arr123, <<I(0)>>)), ExpNone),
       \* a callee and an index that were never assigned
       Case(<<ExprStmt(If(BoolLit(FALSE), <<Assign("x", I(1))>>)),
              ExprStmt(Call(Ident("x"), <<>>))>>, ExpNone),
       Case(<<ExprStmt(If(BoolLit(FALSE), <<Assign("x", I(1))>>)),
              ExprStmt(Index(Dict12, Ident("x")))>>, ExpNone),
       \* indexing
       Case(Expr(Index(Arr123, I(0))), ExpInt(1)),
       Case(Expr(Index(Arr123, I(2))), ExpInt(3)),
       Case(Expr(Index(Arr123, I(3))), ExpNull),
       Case(Expr(Index(Arr123, Prefix("-", I(3)))), ExpNull),
       Case(Expr(Index(ArrayLit(<<>>), Prefix("-", I(1)))), ExpNull),
       Case(Expr(Index(Arr123, BoolLit(TRUE))), ExpNone),
       Case(Expr(Index(I(1), I(1))), ExpNone),
       \* dicts: keys of every hashable type, misses, keys that cannot be hashed
       Case(Expr(Index(DictLit(<< <<I(1), I(3)>>, <<StrLit(StrVa), I(1)>>,
                                  <<BoolLit(TRUE), I(2)>> >>), StrLit(StrVa))), ExpInt(1)),
       Case(Expr(Index(DictLit(<< <<I(1), I(3)>>, <<StrLit(StrVa), I(1)>>,
                                  <<BoolLit(TRUE), I(2)>> >>), BoolLit(TRUE))), ExpInt(2)),
       Case(Expr(Index(DictLit(<< <<I(1), I(3)>>, <<StrLit(StrVa), I(1)>>,
                                  <<BoolLit(TRUE), I(2)>> >>), I(1))), ExpInt(3)),
       Case(Expr(Index(DictLit(<< <<StrLit(StrVa), I(1)>> >>), StrLit(StrJa))), ExpNull),
       Case(Expr(Index(DictLit(<< <<BoolLit(TRUE), I(1)>> >>), BoolLit(FALSE))), ExpNull),
       Case(Expr(Index(Dict12, Arr123)), ExpNone),
       Case(Expr(Index(Dict12, If(BoolLit(FALSE), Expr(I(1))))), ExpNone),
       Case(Expr(Index(Dict12, Dict12)), ExpNone),
       Case(Expr(DictLit(<< <<Arr123, I(1)>> >>)), ExpNone),
       Case(Expr(ArrayLit(<<I(4), DictLit(<< <<I(1), I(2)>>, <<Dict12, I(3)>> >>)>>)),
            ExpNone),
       Case(Expr(DictLit(<< <<I(2), I(2)>>, <<If(BoolLit(FALSE), Expr(I(1))), I(1)>> >>)),
            ExpNone),
       \* unbounded recursion of a function without arguments and locals
       Case(<<Assign("f", Fct("f", <<>>, Expr(Call(Ident("f"), <<>>)))),
              ExprStmt(Call(Ident("f"), <<>>))>>, ExpNone),
       \* the same with locals: every call takes three more slots
       Case(<<Assign("g", Fct("g", <<>>, <<Assign("a", I(1)), Assign("b", I(2)),
                                          ExprStmt(Call(Ident("g"), <<>>))>>)),
              ExprStmt(Call(Ident("g"), <<>>))>>, ExpNone),
       \* logical operators, remainder, division by zero
       Case(Expr(Infix(BoolLit(TRUE), "&&", BoolLit(FALSE))), ExpBool(FALSE)),
       Case(Expr(Infix(I(0), "||", BoolLit(FALSE))), ExpBool(TRUE)),
       Case(Expr(Infix(I(7), "%", I(3))), ExpInt(1)),
       Case(Expr(Infix(I(7), "/", I(0))), ExpNone),
       \* a return at the top level
       Case(<<ExprStmt(I(1)), Return(I(2))>>, ExpNone),
       \* organize without argument, and max, min, organize over elements that are
       \* not all Integers
       Case(Expr(Call(Ident("organize"), <<>>)), ExpNone),
       Case(Expr(Call(Ident("max"), <<ArrayLit(<<I(1), BoolLit(TRUE)>>)>>)), ExpNone),
       Case(Expr(Call(Ident("min"), <<ArrayLit(<<StrLit(StrVa), I(1)>>)>>)), ExpNone),
       Case(Expr(Call(Ident("organize"), <<ArrayLit(<<I(2), BoolLit(TRUE)>>)>>)),
            ExpNone),
       Case(Expr(Call(Ident("organize"), <<I(1)>>)),
            ExpError("first argument to 'organize' must be ARRAY, got INTEGER")),
       Case(Expr(Call(Ident("max"), <<>>)),
            ExpError("wrong number of arguments. got=0, want=1")),
       \* removeFromArray on an array that has a second name, at each index and past
       \* both ends
       Case(<<Assign("a", Arr123), Assign("b", Ident("a")),
              ExprStmt(Call(Ident("removeFromArray"), <<Ident("a"), I(1)>>)),
              ExprStmt(Ident("b"))>>, ExpInts(<<1, 3>>)),
       Case(Expr(Call(Ident("removeFromArray"), <<Arr123, I(0)>>)), ExpInts(<<2, 3>>)),
       Case(Expr(Call(Ident("removeFromArray"), <<Arr123, I(2)>>)), ExpInts(<<1, 2>>)),
       Case(Expr(Call(Ident("removeFromArray"), <<Arr123, I(3)>>)),
            ExpError("index out of bounds: 3")),
       Case(Expr(Call(Ident("removeFromArray"), <<Arr123, Prefix("-", I(1))>>)),
            ExpError("index out of bounds: -1")),
       Case(<<Assign("a", Arr123),
              ExprStmt(Call(Ident("removeFromArray"), <<Ident("a"), I(3)>>)),
              ExprStmt(Ident("a"))>>, ExpInts(<<1, 2, 3>>)),
       Case(Expr(Call(Ident("removeFromArray"), <<ArrayLit(<<>>), I(0)>>)),
            ExpError("index out of bounds: 0")),
       \* the built-ins that return nothing for an empty array
       Case(Expr(Call(Ident("first"), <<ArrayLit(<<>>)>>)), ExpNull),
       Case(Expr(Call(Ident("allButFirst"), <<ArrayLit(<<>>)>>)), ExpNull),
       Case(Expr(Call(Ident("min"), <<ArrayLit(<<>>)>>)), ExpNull),
       Case(Expr(Call(Ident("max"), <<ArrayLit(<<>>)>>)), ExpNull),
       Case(Expr(Index(ArrayLit(<<I(7), Call(Ident("min"), <<ArrayLit(<<>>)>>)>>), I(1))),
            ExpNull),
       \* a function with a local, called above two operands of its caller
       Case(Expr(ArrayLit(<<I(9), I(8),
                            Call(Fct("", <<>>, <<Assign("a", I(1)), ExprStmt(Ident("a"))>>),
                                 <<>>)>>)), ExpInts(<<9, 8, 1>>)),
       \* conditions that are neither true nor false
       Case(Expr(IfElse(I(0), Expr(I(10)), Expr(I(20)))), ExpInt(10)),
       Case(Expr(IfElse(StrLit(<<>>), Expr(I(10)), Expr(I(20)))), ExpInt(10)),
       Case(Expr(IfElse(ArrayLit(<<>>), Expr(I(10)), Expr(I(20)))), ExpInt(10)),
       Case(Expr(IfElse(DictLit(<<>>), Expr(I(10)), Expr(I(20)))), ExpInt(10)),
       Case(<<ExprStmt(If(BoolLit(FALSE), <<Assign("x", I(1))>>)),
              ExprStmt(IfElse(Ident("x"), Expr(I(10)), Expr(I(20))))>>, ExpInt(10)) >>

AllCases ==
    TestIntegerArithmetic \o TestBooleanExpressions \o TestConditionals
    \o TestGlobalVarStatements \o TestStringExpressions \o TestArrayLiterals
    \o TestDictLiterals \o TestIndexExpressions \o TestCallingFunctionsWithoutArguments
    \o TestFunctionsWithReturnStatement \o TestFunctionsWithoutReturnValue
    \o TestFirstClassFunctions \o ExtraCases


(***************************************************************************)
(* Bytecode bundles written by hand, for what the compiled cases do not    *)
(* reach: functions with many locals, a captured variable, OpWhile,        *)
(* OpGetAttr, floats, a byte that is no opcode, a truncated instruction.   *)
(***************************************************************************)
Raw(instructions, cs) ==
    [Instructions |-> Concat(instructions), Constants |-> cs, failed |-> FALSE]

\* fct() { <self>() } with numLocals locals, called once from the top level.
Recursive(numLocals) ==
    Raw(<<Make(OpClosure, <<0, 0>>), Make(OpCall, <<0>>), Make(OpPop, <<>>)>>,
        <<CompiledFunction(Concat(<<Make(OpCurrentClosure, <<>>), Make(OpCall, <<0>>),
                                    Make(OpReturnValue, <<>>)>>),
                           numLocals, 0, ConstantId(0))>>)

StrNope == <<110, 111>>
ADate == Date(99, 12, 31, 23, 59, 58, StrLang, ConstantId(0))
GetAttr(attr) ==
    Raw(<<Make(OpConstant, <<0>>), Make(OpConstant, <<1>>), Make(OpGetAttr, <<>>),
          Make(OpPop, <<>>)>>,
        <<ADate, String(attr, ConstantId(1))>>)

RawPrograms ==
    << \* locals that take the stack to its very end in 8 calls, and past it in 11
       Recursive(255),
       Recursive(200),
       \* fct() { 1; <self>() } with 255 locals: a constant pushed on the full stack
       Raw(<<Make(OpClosure, <<1, 0>>), Make(OpCall, <<0>>), Make(OpPop, <<>>)>>,
           <<Integer(1, ConstantId(0)),
             CompiledFunction(Concat(<<Make(OpConstant, <<0>>), Make(OpPop, <<>>),
                                       Make(OpCurrentClosure, <<>>), Make(OpCall, <<0>>),
                                       Make(OpReturnValue, <<>>)>>),
                              255, 0, ConstantId(1))>>),
       \* var x << 5; fct() { x }() with x captured
       Raw(<<Make(OpConstant, <<0>>), Make(OpClosure, <<1, 1>>), Make(OpCall, <<0>>),
             Make(OpPop, <<>>)>>,
           <<Integer(5, ConstantId(0)),
             CompiledFunction(Concat(<<Make(OpGetFree, <<0>>), Make(OpReturnValue, <<>>)>>),
                              0, 0, ConstantId(1))>>),
       \* var x << 5; var f << fct() { x - 7 } with x and 7 captured; x << 9; 9; 9; f()
       Raw(<<Make(OpConstant, <<0>>), Make(OpSetGlobal, <<0>>), Make(OpGetGlobal, <<0>>),
             Make(OpConstant, <<1>>), Make(OpClosure, <<2, 2>>), Make(OpSetGlobal, <<1>>),
             Make(OpConstant, <<3>>), Make(OpSetGlobal, <<0>>),
             Make(OpConstant, <<3>>), Make(OpConstant, <<3>>), Make(OpPop, <<>>),
             Make(OpPop, <<>>),
             Make(OpGetGlobal, <<1>>), Make(OpCall, <<0>>), Make(OpPop, <<>>)>>,
           <<Integer(5, ConstantId(0)), Integer(7, ConstantId(1)),
             CompiledFunction(Concat(<<Make(OpGetFree, <<0>>), Make(OpGetFree, <<1>>),
                                       Make(OpSub, <<>>), Make(OpReturnValue, <<>>)>>),
                              0, 0, ConstantId(2)),
             Integer(9, ConstantId(3))>>),
       \* fct() { var a << 5; var g << fct() { a }; a << 9; g() }() with a captured
       Raw(<<Make(OpClosure, <<3, 0>>), Make(OpCall, <<0>>), Make(OpPop, <<>>)>>,
           <<Integer(5, ConstantId(0)), Integer(9, ConstantId(1)),
             CompiledFunction(Concat(<<Make(OpGetFree, <<0>>), Make(OpReturnValue, <<>>)>>),
                              0, 0, ConstantId(2)),
             CompiledFunction(Concat(<<Make(OpConstant, <<0>>), Make(OpSetLocal, <<0>>),
                                       Make(OpGetLocal, <<0>>), Make(OpClosure, <<2, 1>>),
                                       Make(OpConstant, <<1>>), Make(OpSetLocal, <<0>>),
                                       Make(OpCall, <<0>>), Make(OpReturnValue, <<>>)>>),
                              1, 0, ConstantId(3))>>),
       \* a loop head: condition, OpWhile to the end
       Raw(<<Make(OpTrue, <<>>), Make(OpWhile, <<7>>), Make(OpConstant, <<0>>),
             Make(OpConstant, <<0>>), Make(OpPop, <<>>)>>,
           <<Integer(1, ConstantId(0))>>),
       Raw(<<Make(OpFalse, <<>>), Make(OpWhile, <<7>>), Make(OpConstant, <<0>>),
             Make(OpConstant, <<0>>), Make(OpPop, <<>>)>>,
           <<Integer(1, ConstantId(0))>>),
       GetAttr(StrHour), GetAttr(StrMinute), GetAttr(StrDay), GetAttr(StrSecond),
       GetAttr(StrMonth), GetAttr(StrYear), GetAttr(StrFullDate), GetAttr(StrNope),
       Raw(<<Make(OpConstant, <<1>>), Make(OpConstant, <<0>>), Make(OpGetAttr, <<>>)>>,
           <<ADate, String(StrHour, ConstantId(1))>>),
       Raw(<<Make(OpTrue, <<>>), Make(OpConstant, <<1>>), Make(OpGetAttr, <<>>)>>,
           <<ADate, String(StrHour, ConstantId(1))>>),
       \* 1.5 + 2 * 0.5 ; 1.5 > 1 ; 1 / 0.0
       Raw(<<Make(OpConstant, <<0>>), Make(OpConstant, <<1>>), Make(OpConstant, <<2>>),
             Make(OpMul, <<>>), Make(OpAdd, <<>>), Make(OpPop, <<>>),
             Make(OpConstant, <<0>>), Make(OpConstant, <<3>>), Make(OpGreaterThan, <<>>),
             Make(OpPop, <<>>),
             Make(OpConstant, <<3>>), Make(OpConstant, <<4>>), Make(OpDiv, <<>>),
             Make(OpPop, <<>>)>>,
           <<NewFloat(Fin(6), ConstantId(0)), Integer(2, ConstantId(1)),
             NewFloat(Fin(2), ConstantId(2)), Integer(1, ConstantId(3)),
             NewFloat(Fin(0), ConstantId(4))>>),
       \* a byte that is no opcode, between two instructions
       Raw(<<Make(OpTrue, <<>>), <<200>>, Make(OpPop, <<>>)>>, <<>>),
       \* an instruction cut short, a constant that does not exist
       Raw(<<Make(OpTrue, <<>>), <<OpConstant, 0>> >>, <<>>),
       Raw(<<Make(OpConstant, <<1>>)>>, <<Integer(1, ConstantId(0))>>),
       \* a pop, a call and an index on an empty stack
       Raw(<<Make(OpPop, <<>>)>>, <<>>),
       Raw(<<Make(OpCall, <<0>>)>>, <<>>),
       Raw(<<Make(OpGetGlobal, <<0>>), Make(OpCall, <<0>>)>>, <<>>),
       Raw(<<Make(OpTrue, <<>>), Make(OpGetGlobal, <<0>>), Make(OpIndex, <<>>)>>, <<>>),
       Raw(<<Make(OpGetGlobal, <<0>>), Make(OpTrue, <<>>), Make(OpDict, <<2>>)>>, <<>>),
       \* a closure over a constant that is no function
       Raw(<<Make(OpClosure, <<0, 0>>)>>, <<Integer(1, ConstantId(0))>>),
       \* jumps back: to the start, to the jump itself, on a falsy condition, by
       \* OpWhile, and one that is not taken
       Raw(<<Make(OpTrue, <<>>), Make(OpPop, <<>>), Make(OpJump, <<0>>)>>, <<>>),
       Raw(<<Make(OpJump, <<0>>)>>, <<>>),
       Raw(<<Make(OpFalse, <<>>), Make(OpJumpNotTruthy, <<0>>), Make(OpPop, <<>>)>>, <<>>),
       Raw(<<Make(OpTrue, <<>>), Make(OpWhile, <<0>>), Make(OpPop, <<>>)>>, <<>>),
       Raw(<<Make(OpTrue, <<>>), Make(OpJumpNotTruthy, <<0>>), Make(OpTrue, <<>>),
             Make(OpPop, <<>>)>>, <<>>),
       \* jumps into their own operands
       Raw(<<Make(OpJump, <<1>>), Make(OpTrue, <<>>), Make(OpPop, <<>>)>>, <<>>),
       Raw(<<Make(OpFalse, <<>>), Make(OpJumpNotTruthy, <<3>>), Make(OpTrue, <<>>),
             Make(OpPop, <<>>)>>, <<>>) >>

(***************************************************************************)
(* One binary operator applied to two operands, for every arithmetic and   *)
(* comparison opcode and every pair of the operands below: integers with   *)
(* the extremes and zero, floats, strings, and the values without a        *)
(* constant (true, false, null, an empty array).                           *)
(***************************************************************************)
IntOperand(n) == [kind |-> "int", n |-> n]
FloatOperand(x) == [kind |-> "float", x |-> x]
StringOperand(s) == [kind |-> "string", s |-> s]
OpcodeOperand(op) == [kind |-> "opcode", op |-> op]
Operand ==
    << IntOperand(MinInt), IntOperand(-7), IntOperand(-1), IntOperand(0),
       IntOperand(2), IntOperand(7), IntOperand(MaxInt),
       FloatOperand(Fin(6)), FloatOperand(Fin(0)),
       StringOperand(StrVa), StringOperand(StrJa),
       OpcodeOperand(OpTrue), OpcodeOperand(OpFalse), OpcodeOperand(OpNull),
       [kind |-> "array"] >>
BinaryOpcode ==
    << OpAdd, OpSub, OpMul, OpDiv, OpMod, OpEqual, OpNotEqual, OpGreaterThan,
       OpLessThan, OpGreaterThanOrEqual, OpLessThanOrEqual >>

\* The constant of an operand at index i of the pool (none for the last four).
OperandConstant(o, i) ==
    CASE o.kind = "int" -> <<Integer(o.n, ConstantId(i))>>
      [] o.kind = "float" -> <<NewFloat(o.x, ConstantId(i))>>
      [] o.kind = "string" -> <<String(o.s, ConstantId(i))>>
      [] OTHER -> <<>>
\* The instruction that pushes an operand whose constant, if any, is at index i.
OperandLoad(o, i) ==
    CASE o.kind \in {"int", "float", "string"} -> Make(OpConstant, <<i>>)
      [] o.kind = "opcode" -> Make(o.op, <<>>)
      [] o.kind = "array" -> Make(OpArray, <<0>>)

\* left op right, popped.
Binary(op, left, right) ==
    LET cl == OperandConstant(left, 0)
    IN  Raw(<<OperandLoad(left, 0), OperandLoad(right, Len(cl)), <<op>>,
              Make(OpPop, <<>>)>>,
            cl \o OperandConstant(right, Len(cl)))
NumBinary == Len(BinaryOpcode) * Len(Operand) * Len(Operand)
BinaryPrograms(k) ==
    Binary(BinaryOpcode[(k \div (Len(Operand) * Len(Operand))) + 1],
           Operand[((k \div Len(Operand)) % Len(Operand)) + 1],
           Operand[(k % Len(Operand)) + 1])

(***************************************************************************)
(* Lines given one after the other to machines that share one globals      *)
(* store: x << 5 ; y << 7 followed by true + 7, which fails ; x ; y ;      *)
(* x << 9.                                                                 *)
(***************************************************************************)
ReplPrograms ==
    << Raw(<<Make(OpConstant, <<0>>), Make(OpSetGlobal, <<0>>)>>,
           <<Integer(5, ConstantId(0))>>),
       Raw(<<Make(OpConstant, <<0>>), Make(OpSetGlobal, <<1>>), Make(OpTrue, <<>>),
             Make(OpConstant, <<0>>), Make(OpAdd, <<>>), Make(OpPop, <<>>)>>,
           <<Integer(7, ConstantId(0))>>),
       Raw(<<Make(OpGetGlobal, <<0>>), Make(OpPop, <<>>)>>, <<>>),
       Raw(<<Make(OpGetGlobal, <<1>>), Make(OpPop, <<>>)>>, <<>>),
       Raw(<<Make(OpConstant, <<0>>), Make(OpSetGlobal, <<0>>)>>,
           <<Integer(9, ConstantId(0))>>) >>

\* The bundles the machine is run on: the compiled cases, those written by hand, the
\* binary operations and the lines.
NumPrograms == Len(AllCases) + Len(RawPrograms) + NumBinary + Len(ReplPrograms)
Programs(i) ==
    IF i <= Len(AllCases) THEN Bytecode(AllCases[i].input)
    ELSE IF i <= Len(AllCases) + Len(RawPrograms) THEN RawPrograms[i - Len(AllCases)]
    ELSE IF i <= Len(AllCases) + Len(RawPrograms) + NumBinary
    THEN BinaryPrograms(i - Len(AllCases) - Len(RawPrograms) - 1)
    ELSE ReplPrograms[i - Len(AllCases) - Len(RawPrograms) - NumBinary]

(***************************************************************************)
(* The machine.  Init is New(bytecode) for one of the bundles; each action *)
(* is one turn of the loop of Run that takes one case of its switch.       *)
(* status is "running" while Run is in its loop, "done" once it returned   *)
(* nil, "error" once it returned an error (err), and "panic" once a Go     *)
(* runtime panic unwound it (err is the reason).  A step that fails keeps  *)
(* what it wrote to the machine before it failed.                          *)
(***************************************************************************)
mainFn(bytecode) == CompiledFunction(bytecode.Instructions, 0, 0, 4)
mainClosure(bytecode) == Closure(mainFn(bytecode), <<>>, 5)

Init ==
    /\ program \in 1 .. NumPrograms
    /\ ~Programs(program).failed
    /\ constants = Programs(program).Constants
    /\ stack = <<>>
    /\ sp = 0
    /\ globals = EmptyMap
    /\ frames = <<NewFrame(mainClosure(Programs(program)), 0)>>
    /\ framesIndex = 1
    /\ heap = EmptyMap
    /\ nextId = ConstantId(Len(constants))
    /\ status = "running"
    /\ err = ""

\* The loop condition of Run, and the opcode the next turn fetches.
LoopCondition == Ip(Cur) < Len(Ins(Cur)) - 1
NextOp == At(Ins(Cur), Ip(Cur) + 1)
\* A variant of the loop that goes on after an error.
Fetch_AfterError(ops) == status \in {"running", "error"} /\ LoopCondition /\ NextOp \in ops
Fetch(ops) == status = "running" /\ LoopCondition /\ NextOp \in ops
\* The machine after ip++.
Fetched == AddIp(Cur, 1)

\* The machine a case leaves, computed once, becomes the next state.
Commit(vm) ==
    \E m \in {vm} :
        /\ stack' = m.stack
        /\ sp' = m.sp
        /\ globals' = m.globals
        /\ frames' = m.frames
        /\ framesIndex' = m.framesIndex
        /\ heap' = m.heap
        /\ nextId' = m.nextId
        /\ status' = IF m.panic # "" THEN "panic" ELSE IF m.err # "" THEN "error"
                     ELSE "running"
        /\ err' = IF m.panic # "" THEN m.panic ELSE m.err
        /\ UNCHANGED <<program, constants>>

ArithmeticOps == {OpAdd, OpSub, OpMul, OpDiv, OpMod}
ComparisonOps ==
    {OpEqual, OpNotEqual, OpGreaterThan, OpLessThan, OpGreaterThanOrEqual,
     OpLessThanOrEqual}

RunOpConstant == Fetch({OpConstant}) /\ Commit(caseOpConstant(Fetched))
RunArithmetic == Fetch(ArithmeticOps) /\ Commit(executeBinaryOperation(Fetched, NextOp))
RunOpAnd == Fetch({OpAnd}) /\ Commit(executeAnd(Fetched))
RunOpOr == Fetch({OpOr}) /\ Commit(executeOr(Fetched))
RunComparison == Fetch(ComparisonOps) /\ Commit(executeComparison(Fetched, NextOp))
RunOpTrue == Fetch({OpTrue}) /\ Commit(push(Fetched, True))
RunOpFalse == Fetch({OpFalse}) /\ Commit(push(Fetched, False))
RunOpBang == Fetch({OpBang}) /\ Commit(executeBangOperator(Fetched))
RunOpMinus == Fetch({OpMinus}) /\ Commit(executeMinusOperator(Fetched))
RunOpPop == Fetch({OpPop}) /\ Commit(caseOpPop(Fetched))
RunOpJump == Fetch({OpJump}) /\ Commit(caseOpJump(Fetched))
RunOpJumpNotTruthy == Fetch({OpJumpNotTruthy}) /\ Commit(caseOpJumpNotTruthy(Fetched))
RunOpNull == Fetch({OpNull}) /\ Commit(push(Fetched, Null))
RunOpSetGlobal == Fetch({OpSetGlobal}) /\ Commit(caseOpSetGlobal(Fetched))
RunOpGetGlobal == Fetch({OpGetGlobal}) /\ Commit(caseOpGetGlobal(Fetched))
RunOpArray == Fetch({OpArray}) /\ Commit(caseOpArray(Fetched))
RunOpDict == Fetch({OpDict}) /\ Commit(caseOpDict(Fetched))
RunOpIndex == Fetch({OpIndex}) /\ Commit(caseOpIndex(Fetched))
RunOpCall == Fetch({OpCall}) /\ Commit(caseOpCall(Fetched))
RunOpReturnValue == Fetch({OpReturnValue}) /\ Commit(caseOpReturnValue(Fetched))
RunOpReturn == Fetch({OpReturn}) /\ Commit(caseOpReturn(Fetched))
RunOpSetLocal == Fetch({OpSetLocal}) /\ Commit(caseOpSetLocal(Fetched))
RunOpGetLocal == Fetch({OpGetLocal}) /\ Commit(caseOpGetLocal(Fetched))
RunOpGetBuiltin == Fetch({OpGetBuiltin}) /\ Commit(caseOpGetBuiltin(Fetched))
RunOpClosure == Fetch({OpClosure}) /\ Commit(caseOpClosure(Fetched))
RunOpGetFree == Fetch({OpGetFree}) /\ Commit(caseOpGetFree(Fetched))
RunOpCurrentClosure == Fetch({OpCurrentClosure}) /\ Commit(caseOpCurrentClosure(Fetched))
RunOpWhile == Fetch({OpWhile}) /\ Commit(caseOpWhile(Fetched))
RunOpGetAttr == Fetch({OpGetAttr}) /\ Commit(caseOpGetAttr(Fetched))
\* The switch has no default: a byte that is no opcode only advances ip.
RunNoCase == Fetch(0 .. 255 \ DefinedOpcodes) /\ Commit(Fetched)
\* The loop condition fails: Run returns nil.
RunReturn ==
    /\ status = "running"
    /\ ~LoopCondition
    /\ status' = "done"
    /\ UNCHANGED <<program, constants, stack, sp, globals, frames, framesIndex, heap,
                   nextId, err>>

Next ==
    \/ RunOpConstant \/ RunArithmetic \/ RunOpAnd \/ RunOpOr \/ RunComparison
    \/ RunOpTrue \/ RunOpFalse \/ RunOpBang \/ RunOpMinus \/ RunOpPop \/ RunOpJump
    \/ RunOpJumpNotTruthy \/ RunOpNull \/ RunOpSetGlobal \/ RunOpGetGlobal
    \/ RunOpArray \/ RunOpDict \/ RunOpIndex \/ RunOpCall \/ RunOpReturnValue
    \/ RunOpReturn \/ RunOpSetLocal \/ RunOpGetLocal \/ RunOpGetBuiltin
    \/ RunOpClosure \/ RunOpGetFree \/ RunOpCurrentClosure \/ RunOpWhile
    \/ RunOpGetAttr \/ RunNoCase \/ RunReturn

Spec == Init /\ [][Next]_vars

\* Run is one sequential loop that nothing suspends: while a turn of the loop or the
\* return is possible, it is taken.
FairSpec == Init /\ [][Next]_vars /\ WF_vars(Next)

\* Whether the program is a case of the tables, and what it expects.
IsCase == program <= Len(AllCases)
Expected == IF IsCase THEN AllCases[program].expected ELSE ExpNone

\* runVmTests: after Run returned nil, the last popped element is the expected one.
TestsPass ==
    (status = "done" /\ Expected.kind # "none")
        => IsExpected(Cur, Expected, LastPoppedStackElem(Cur))
(***************************************************************************)
(* Successive machines over one globals store. When a Run has returned,    *)
(* with or without error, the caller compiles a further line and makes a   *)
(* machine for it with NewWithGlobalsStore(bytecode, globals): everything  *)
(* is new but the globals, and the objects they refer to. The constants of *)
(* the new bundle are new objects. MaxObjects bounds the objects made.     *)
(***************************************************************************)
MaxObjects == 4
FreshConstants(cs, base) == [k \in 1 .. Len(cs) |-> [cs[k] EXCEPT !.id = base + k - 1]]

\* A variant that makes the globals anew, as New does.
NewWithGlobalsStore_OwnGlobals(bytecode, p) ==
    /\ status \in {"done", "error"}
    /\ nextId + Len(bytecode.Constants) <= ConstantId(MaxObjects)
    /\ program' = p
    /\ constants' = FreshConstants(bytecode.Constants, nextId)
    /\ nextId' = nextId + Len(bytecode.Constants)
    /\ stack' = <<>>
    /\ sp' = 0
    /\ frames' = <<NewFrame(mainClosure(bytecode), 0)>>
    /\ framesIndex' = 1
    /\ status' = "running"
    /\ err' = ""
    /\ globals' = EmptyMap
    /\ UNCHANGED heap
\* bytecode is the bundle of the line, p its place among the bundles.
NewWithGlobalsStore(bytecode, p) ==
    /\ status \in {"done", "error"}
    /\ nextId + Len(bytecode.Constants) <= ConstantId(MaxObjects)
    /\ program' = p
    /\ constants' = FreshConstants(bytecode.Constants, nextId)
    /\ nextId' = nextId + Len(bytecode.Constants)
    /\ stack' = <<>>
    /\ sp' = 0
    /\ frames' = <<NewFrame(mainClosure(bytecode), 0)>>
    /\ framesIndex' = 1
    /\ status' = "running"
    /\ err' = ""
    /\ UNCHANGED <<globals, heap>>

NextLine ==
    \E k \in DOMAIN ReplPrograms :
        NewWithGlobalsStore(ReplPrograms[k], NumPrograms - Len(ReplPrograms) + k)
ReplNext == Next \/ NextLine
ReplSpec == Init /\ [][ReplNext]_vars

TestsEnd == (status # "running" /\ Expected.kind # "none") => status = "done"

(***************************************************************************)
(* Properties                                                              *)
(***************************************************************************)
Input == IF IsCase THEN AllCases[program].input ELSE <<>>
HasExpressionStatement ==
    \E i \in 1 .. Len(Input) : Input[i].node = "ExpressionStatement"
LastIsExpression ==
    Input # <<>> /\ Input[Len(Input)].node = "ExpressionStatement"
\* The instruction boundary: Run is about to fetch an opcode.
AtBoundary == status = "running" /\ LoopCondition

\* C1 as stated: when Run returns nil on a compiled program, sp is 0 and the last
\* popped element is the value of the final expression statement, or Null when the
\* program has no expression statement.
C1_LastPoppedOrNull ==
    (status = "done" /\ IsCase) =>
        /\ sp = 0
        /\ IF HasExpressionStatement
           THEN LastIsExpression =>
                    IsExpected(Cur, Expected, LastPoppedStackElem(Cur))
           ELSE SameObject(LastPoppedStackElem(Cur), Null)

\* C1 amended: when Run returns nil on a compiled program, sp is 0; the last popped
\* element is the value of the last statement when that is an expression statement,
\* and no object at all (a nil slot) when the program has no statement.
C1_LastPopped ==
    (status = "done" /\ IsCase) =>
        /\ sp = 0
        /\ LastIsExpression =>
              /\ Expected.kind # "none"
              /\ IsExpected(Cur, Expected, LastPoppedStackElem(Cur))
        /\ Input = <<>> => IsNil(LastPoppedStackElem(Cur))

\* Run returned nil on a program that called a function and ends with an expression.
C1_Witness ==
    /\ status = "done" /\ IsCase /\ LastIsExpression /\ sp = 0
    /\ Expected.kind = "int" /\ Len(frames) > 1
    /\ IsExpected(Cur, Expected, LastPoppedStackElem(Cur))

\* C2: at every instruction boundary 0 <= sp <= StackSize.
C2_SpWithinStack == AtBoundary => (0 <= sp /\ sp <= StackSize)

\* The instructions whose case is a single push, with operands that decode.
PushesOnly ==
    \/ NextOp \in {OpTrue, OpFalse, OpNull, OpCurrentClosure}
    \/ /\ NextOp = OpConstant
       /\ Operands(Fetched, 2)
       /\ ReadUint16(Ins(Cur), Ip(Cur) + 2) < Len(constants)

\* C3: a push attempted at sp >= StackSize makes Run return "stack overflow" and
\* leaves the stack and sp as they were.
C3_StackOverflow ==
    [][(AtBoundary /\ sp >= StackSize /\ PushesOnly) =>
            /\ status' = "error"
            /\ err' = "stack overflow"
            /\ stack' = stack
            /\ sp' = sp]_vars

\* Run returned "stack overflow" from a stack that is exactly full.
C3_Witness == status = "error" /\ err = "stack overflow" /\ sp = StackSize

\* The callee of the OpCall about to run, and its argument count.
NextNumArgs == ReadUint8(Ins(Cur), Ip(Cur) + 2)
NextIsCall == AtBoundary /\ NextOp = OpCall /\ Operands(Fetched, 1)
NextCallee == StackGet(Cur, sp - 1 - NextNumArgs)
NextCalleeIs(type) ==
    /\ NextIsCall
    /\ InStack(sp - 1 - NextNumArgs)
    /\ ~IsNil(NextCallee)
    /\ Type(NextCallee) = type

\* C4: a closure call that would take the frame stack past MaxFrames makes Run
\* return an error.
C4_FrameOverflowIsError ==
    [][(/\ NextCalleeIs(CLOSURE_OBJ)
        /\ NextNumArgs = NextCallee.Fn.NumParameters
        /\ framesIndex >= MaxFrames) => status' = "error"]_vars

\* The slots of the stack below index n (0-based), nil where nothing was written.
Below(st, n) == [k \in 1 .. n |-> IF k <= Len(st) THEN st[k] ELSE Nil]
\* The slot at index i of the stack after the step.
SlotAfter(i) == IF 0 <= i /\ i < Len(stack') THEN stack'[i + 1] ELSE Nil
Min(a, b) == IF a < b THEN a ELSE b

\* A call of a closure with N arguments at sp = s opens a frame whose base pointer
\* is s - N, for a function of N parameters.
CallOpensFrame ==
    (NextCalleeIs(CLOSURE_OBJ) /\ status' = "running") =>
        /\ framesIndex' = framesIndex + 1
        /\ frames'[framesIndex'].basePointer = sp - NextNumArgs
        /\ frames'[framesIndex'].cl.Fn.NumParameters = NextNumArgs
\* No step changes the closure or the base pointer of a frame that stays active.
FramesKept ==
    \A i \in 1 .. Min(framesIndex, framesIndex') :
        /\ frames'[i].basePointer = frames[i].basePointer
        /\ frames'[i].cl = frames[i].cl
\* OpReturnValue and OpReturn close the frame and leave sp at its base pointer, the
\* result in the slot of the callee, and the slots below as they were.
ReturnClosesFrame ==
    (AtBoundary /\ NextOp \in {OpReturnValue, OpReturn} /\ framesIndex > 1
     /\ status' = "running") =>
        LET basePointer == currentFrame(Cur).basePointer IN
        /\ framesIndex' = framesIndex - 1
        /\ sp' = basePointer
        /\ SlotAfter(basePointer - 1) = IF NextOp = OpReturnValue THEN Top(Cur) ELSE Null
        /\ Below(stack', basePointer - 1) = Below(stack, basePointer - 1)
\* A call of a built-in with N arguments at sp = s leaves sp = s - N, the result (Null
\* for none) in the slot of the callee, and the slots below as they were.
BuiltinResult ==
    BuiltinFn(Cur, NextCallee,
              [k \in 1 .. NextNumArgs |-> StackGet(Cur, sp - NextNumArgs + k - 1)]).result
BuiltinCallReturns ==
    (NextCalleeIs(BUILTIN_OBJ) /\ status' = "running") =>
        /\ framesIndex' = framesIndex
        /\ sp' = sp - NextNumArgs
        /\ SlotAfter(sp' - 1) = IF IsNil(BuiltinResult) THEN Null ELSE BuiltinResult
        /\ Below(stack', sp' - 1) = Below(stack, sp' - 1)

\* C5: a call with N arguments made at sp = s ends with sp = s - N and its one
\* result at index s - N - 1, whether a closure that returns or a built-in.
C5_CallBalance ==
    [][CallOpensFrame /\ FramesKept /\ ReturnClosesFrame /\ BuiltinCallReturns]_vars

\* A closure of two parameters has returned: its frame is closed, sp is its base
\* pointer and the result sits below.
C5_Witness ==
    /\ status = "running"
    /\ Len(frames) > framesIndex
    /\ frames[framesIndex + 1].cl.Fn.NumParameters = 2
    /\ sp = frames[framesIndex + 1].basePointer
    /\ Type(stack[sp]) = INTEGER_OBJ

\* C6: a closure called with a number of arguments other than its NumParameters
\* makes Run return "wrong number of arguments: want=N, got=M"; no frame is pushed
\* and sp is not changed.
C6_WrongArity ==
    [][(NextCalleeIs(CLOSURE_OBJ) /\ NextNumArgs # NextCallee.Fn.NumParameters) =>
            /\ status' = "error"
            /\ err' = "wrong number of arguments: want="
                      \o ToString(NextCallee.Fn.NumParameters)
                      \o ", got=" \o ToString(NextNumArgs)
            /\ framesIndex' = framesIndex
            /\ Len(frames') = Len(frames)
            /\ sp' = sp
            /\ stack' = stack]_vars

\* Run returned the error of a call with two arguments to a function of none.
C6_Witness ==
    /\ status = "error"
    /\ err = "wrong number of arguments: want=0, got=2"
    /\ framesIndex = 1 /\ Len(frames) = 1
    /\ sp = 4

\* C7: OpCall on a callee that is neither a closure nor a built-in makes Run return
\* an error, with the frame stack and sp unchanged.
C7_NotCallable ==
    [][(/\ NextIsCall
        /\ InStack(sp - 1 - NextNumArgs)
        /\ ~IsNil(NextCallee)
        /\ Type(NextCallee) \notin {CLOSURE_OBJ, BUILTIN_OBJ}) =>
            /\ status' = "error"
            /\ err' = "calling non-function and non-built-in object: " \o Type(NextCallee)
            /\ framesIndex' = framesIndex
            /\ Len(frames') = Len(frames)
            /\ FramesKept
            /\ sp' = sp
            /\ stack' = stack]_vars

\* Run returned the error of calling a Boolean with two arguments.
C7_Witness ==
    /\ status = "error"
    /\ err = "calling non-function and non-built-in object: BOOLEAN"
    /\ framesIndex = 1
    /\ sp = 4

\* The operands of the OpIndex about to run.
NextIsIndex == AtBoundary /\ NextOp = OpIndex /\ sp >= 2 /\ sp <= StackSize
IndexLeft == StackGet(Cur, sp - 2)
IndexIndex == StackGet(Cur, sp - 1)
IndexOn(type) == NextIsIndex /\ ~IsNil(IndexLeft) /\ Type(IndexLeft) = type

\* C8: OpIndex on an array with an Integer index i pushes the element at i when
\* 0 <= i <= len - 1, and Null, without error, when i < 0 or i >= len.
C8_ArrayIndex ==
    [][(IndexOn(ARRAY_OBJ) /\ IsInteger(IndexIndex)) =>
            LET elements == heap[IndexLeft.id]
                i == IndexIndex.n
            IN  /\ status' = "running"
                /\ sp' = sp - 1
                /\ SlotAfter(sp' - 1) = IF 0 <= i /\ i <= Len(elements) - 1
                                        THEN elements[i + 1] ELSE Null]_vars

\* An index at or past the length of an array of three has pushed Null.
C8_Witness ==
    /\ status = "running"
    /\ sp = 1 /\ Len(stack) >= 2
    /\ SameObject(stack[1], Null)
    /\ IsInteger(stack[2]) /\ stack[2].n >= 3
    /\ \E id \in DOMAIN heap : Len(heap[id]) = 3

\* Whether two keys are the same value of the same type.
SameKey(a, b) ==
    /\ Type(a) = Type(b)
    /\ CASE Type(a) = INTEGER_OBJ -> a.n = b.n
         [] Type(a) = BOOLEAN_OBJ -> a.b = b.b
         [] Type(a) = STRING_OBJ -> a.s = b.s
Stored(dict, key) == {k \in DOMAIN dict.Pairs : SameKey(dict.Pairs[k].Key, key)}

\* C9: OpIndex on a dict with an Integer, Boolean or String key pushes the value
\* stored under the key, or Null without error when there is none; with a key of
\* any other type Run returns an error.
C9_DictIndex ==
    [][(IndexOn(DICT_OBJ) /\ ~IsNil(IndexIndex)) =>
            IF Type(IndexIndex) \in {INTEGER_OBJ, BOOLEAN_OBJ, STRING_OBJ}
            THEN /\ status' = "running"
                 /\ sp' = sp - 1
                 /\ IF Stored(IndexLeft, IndexIndex) = {}
                    THEN SlotAfter(sp' - 1) = Null
                    ELSE \E k \in Stored(IndexLeft, IndexIndex) :
                            SlotAfter(sp' - 1) = IndexLeft.Pairs[k].Value
            ELSE /\ status' = "error"
                 /\ err' = "unusable as hash key: " \o Type(IndexIndex)]_vars

\* Run returned the error of indexing a dict with an array.
C9_Witness ==
    /\ status = "error"
    /\ err = "unusable as hash key: ARRAY"
    /\ sp = 0 /\ Len(stack) >= 2
    /\ Type(stack[1]) = DICT_OBJ /\ Type(stack[2]) = ARRAY_OBJ

\* The OpDict about to run, its operand, and the first of its key slots (even
\* offsets from sp - n) that holds no Integer, Boolean or String.
NextIsDict == AtBoundary /\ NextOp = OpDict /\ Operands(Fetched, 2)
NextNumElements == ReadUint16(Ins(Cur), Ip(Cur) + 2)
KeySlots ==
    {i \in (sp - NextNumElements) .. (sp - 1) : (i - (sp - NextNumElements)) % 2 = 0}
Unusable == {i \in KeySlots : ~Dictable(StackGet(Cur, i))}
FirstUnusable == CHOOSE i \in Unusable : \A j \in Unusable : i <= j

\* C10: OpDict over slots of which a key slot holds a value that is no Integer,
\* Boolean or String makes Run return "unusable as hash key: <type>"; no dict is
\* pushed and sp is left unchanged.
C10_UnusableKey ==
    [][(/\ NextIsDict
        /\ 0 <= sp - NextNumElements /\ sp <= StackSize
        /\ Unusable # {}
        /\ ~IsNil(StackGet(Cur, FirstUnusable))) =>
            /\ status' = "error"
            /\ err' = "unusable as hash key: " \o Type(StackGet(Cur, FirstUnusable))
            /\ sp' = sp
            /\ stack' = stack]_vars

\* Run returned the error of a dict literal whose second key is a dict.
C10_Witness ==
    /\ status = "error"
    /\ err = "unusable as hash key: DICT"
    /\ sp = 5
    /\ Type(stack[4]) = DICT_OBJ

\* The binary operator about to run and its operands: right is on top, left below.
NextIsBinary(ops) == AtBoundary /\ NextOp \in ops /\ sp >= 2 /\ sp <= StackSize
BinaryLeft == StackGet(Cur, sp - 2)
BinaryRight == StackGet(Cur, sp - 1)
BinaryOn(ops, leftType, rightType) ==
    /\ NextIsBinary(ops)
    /\ ~IsNil(BinaryLeft) /\ Type(BinaryLeft) = leftType
    /\ ~IsNil(BinaryRight) /\ Type(BinaryRight) = rightType

\* left op right in the integers, before wrapping; a zero divisor has no result.
Quotient(a, b) ==
    CHOOSE q \in -Abs(a) .. Abs(a) :
        /\ Abs(q * b) <= Abs(a) /\ Abs(a) - Abs(q * b) < Abs(b)
        /\ (q # 0 => (q > 0 <=> ((a > 0) <=> (b > 0))))
Exact(op, a, b) ==
    CASE op = OpAdd -> a + b
      [] op = OpSub -> a - b
      [] op = OpMul -> a * b
      [] op = OpDiv -> Quotient(a, b)
      [] op = OpMod -> a - b * Quotient(a, b)

\* C11: an arithmetic opcode on two Integers pushes an Integer that is the wrapped
\* signed result of left op right, division truncating toward zero, left being the
\* operand pushed first; this for every pair, a zero divisor included.
C11_IntegerArithmetic ==
    [][BinaryOn(ArithmeticOps, INTEGER_OBJ, INTEGER_OBJ) =>
            /\ status' = "running"
            /\ sp' = sp - 1
            /\ IsInteger(SlotAfter(sp' - 1))
            /\ (BinaryRight.n # 0 \/ NextOp \notin {OpDiv, OpMod}) =>
                    SlotAfter(sp' - 1).n = Wrap(Exact(NextOp, BinaryLeft.n, BinaryRight.n))]_vars

\* The same with a divisor that is not zero.
C11_NonZeroDivisor ==
    [][(/\ BinaryOn(ArithmeticOps, INTEGER_OBJ, INTEGER_OBJ)
        /\ (BinaryRight.n # 0 \/ NextOp \notin {OpDiv, OpMod})) =>
            /\ status' = "running"
            /\ sp' = sp - 1
            /\ IsInteger(SlotAfter(sp' - 1))
            /\ SlotAfter(sp' - 1).n = Wrap(Exact(NextOp, BinaryLeft.n, BinaryRight.n))]_vars

NumericPair(left, right) ==
    /\ Type(left) \in {INTEGER_OBJ, FLOAT_OBJ}
    /\ Type(right) \in {INTEGER_OBJ, FLOAT_OBJ}
StringPair(left, right) == Type(left) = STRING_OBJ /\ Type(right) = STRING_OBJ

\* C12: an arithmetic opcode on two Strings concatenates them, left then right, for
\* OpAdd and makes Run return an error for the other four; on a pair of objects that
\* is neither numeric nor two Strings Run returns "unsupported types for binary
\* operation: <left type> <right type>" and nothing is pushed (both operands have
\* been popped, no slot is written).
C12_OperandTypes ==
    [][(NextIsBinary(ArithmeticOps) /\ ~IsNil(BinaryLeft) /\ ~IsNil(BinaryRight)) =>
            IF StringPair(BinaryLeft, BinaryRight)
            THEN IF NextOp = OpAdd
                 THEN /\ status' = "running"
                      /\ sp' = sp - 1
                      /\ IsString(SlotAfter(sp' - 1))
                      /\ SlotAfter(sp' - 1).s = BinaryLeft.s \o BinaryRight.s
                 ELSE /\ status' = "error"
                      /\ err' = "unknown string operator: " \o ToString(NextOp)
                      /\ sp' = sp - 2
                      /\ stack' = stack
            ELSE IF NumericPair(BinaryLeft, BinaryRight) THEN TRUE
            ELSE /\ status' = "error"
                 /\ err' = "unsupported types for binary operation: "
                            \o Type(BinaryLeft) \o " " \o Type(BinaryRight)
                 /\ sp' = sp - 2
                 /\ stack' = stack]_vars

\* Run returned the error of subtracting a Boolean from a String.
C12_Witness ==
    /\ status = "error"
    /\ err = "unsupported types for binary operation: STRING BOOLEAN"
    /\ sp = 0 /\ Len(stack) = 2
    /\ IsString(stack[1]) /\ stack[2] = True
    /\ At(Ins(Cur), Ip(Cur)) = OpSub

\* C13: on two Strings OpEqual pushes True iff the contents are equal and
\* OpNotEqual pushes True iff they differ, neither with an error; the ordering
\* comparisons make Run return an error.
C13_StringComparison ==
    [][BinaryOn(ComparisonOps, STRING_OBJ, STRING_OBJ) =>
            IF NextOp \in {OpEqual, OpNotEqual}
            THEN /\ status' = "running"
                 /\ sp' = sp - 1
                 /\ SlotAfter(sp' - 1) =
                        nativeBoolToBooleanObject((BinaryLeft.s = BinaryRight.s)
                                                  <=> (NextOp = OpEqual))
            ELSE status' = "error"]_vars

\* The part of it the source has: OpEqual, and an error for every other comparison.
C13_StringEqualOnly ==
    [][BinaryOn(ComparisonOps, STRING_OBJ, STRING_OBJ) =>
            IF NextOp = OpEqual
            THEN /\ status' = "running"
                 /\ sp' = sp - 1
                 /\ SlotAfter(sp' - 1) =
                        nativeBoolToBooleanObject(BinaryLeft.s = BinaryRight.s)
            ELSE /\ status' = "error"
                 /\ err' = "unknown string operator: " \o ToString(NextOp)]_vars

\* C14: on two objects that are neither a numeric pair nor two Strings OpEqual
\* pushes True iff both operands are the same object and OpNotEqual pushes the
\* opposite; every other comparison opcode makes Run return an error.
C14_IdentityComparison ==
    [][(/\ NextIsBinary(ComparisonOps)
        /\ ~IsNil(BinaryLeft) /\ ~IsNil(BinaryRight)
        /\ ~NumericPair(BinaryLeft, BinaryRight)
        /\ ~StringPair(BinaryLeft, BinaryRight)) =>
            IF NextOp \in {OpEqual, OpNotEqual}
            THEN /\ status' = "running"
                 /\ sp' = sp - 1
                 /\ SlotAfter(sp' - 1) =
                        nativeBoolToBooleanObject((BinaryLeft.id = BinaryRight.id)
                                                  <=> (NextOp = OpEqual))
            ELSE /\ status' = "error"
                 /\ sp' = sp - 2]_vars

\* true == false has pushed False, and was popped.
C14_Witness ==
    /\ status = "running"
    /\ sp = 0 /\ Len(stack) = 2
    /\ stack[1] = False /\ stack[2] = False
    /\ Ins(Cur) = <<OpTrue, OpFalse, OpEqual, OpPop>>
    /\ Ip(Cur) = 3

\* The jump about to run, its target, and ip once the step is done.
NextIsJump(op) == AtBoundary /\ NextOp = op /\ Operands(Fetched, 2)
JumpTarget == ReadUint16(Ins(Cur), Ip(Cur) + 2)
IpAfter == frames'[framesIndex'].ip
Falsy(obj) == obj = Null \/ obj = False

\* C15: OpJumpNotTruthy pops exactly one value; the next instruction fetched is the
\* one at its target iff the value is Null or False, and the one after the two
\* operand bytes for every other value, the Integer 0 and the empty string, array
\* and dict included. OpJump always continues at its target and pops nothing.
C15_Jumps ==
    [][/\ (NextIsJump(OpJumpNotTruthy) /\ sp >= 1 /\ sp <= StackSize) =>
            /\ status' = "running"
            /\ sp' = sp - 1
            /\ stack' = stack
            /\ framesIndex' = framesIndex
            /\ IpAfter + 1 = IF Falsy(StackGet(Cur, sp - 1)) THEN JumpTarget
                             ELSE Ip(Cur) + 4
       /\ NextIsJump(OpJump) =>
            /\ status' = "running"
            /\ sp' = sp
            /\ stack' = stack
            /\ framesIndex' = framesIndex
            /\ IpAfter + 1 = JumpTarget]_vars

\* if (0) { 10 } else { 20 }: the condition 0 was popped and the consequence is next.
C15_Witness ==
    /\ status = "running"
    /\ IsCase /\ Len(Input) = 1 /\ Len(constants) = 3
    /\ sp = 0 /\ Len(stack) = 1
    /\ IsInteger(stack[1]) /\ stack[1].n = 0
    /\ At(Ins(Cur), Ip(Cur) - 2) = OpJumpNotTruthy
    /\ JumpTarget # Ip(Cur) + 1

\* The call of a built-in about to run, with its arguments within the stack.
NextIsBuiltinCall ==
    /\ NextCalleeIs(BUILTIN_OBJ)
    /\ 0 <= sp - NextNumArgs /\ sp <= StackSize

\* C16: a call of a built-in never ends Run, neither with an error nor otherwise:
\* the VM goes on with the result pushed, which is of Error kind when the call has no
\* argument at all or a first argument that is an object other than an array.
C16_BuiltinsReturnErrors ==
    [][NextIsBuiltinCall =>
            /\ status' = "running"
            /\ sp' = sp - NextNumArgs
            /\ (\/ NextNumArgs = 0
                \/ /\ ~IsNil(StackGet(Cur, sp - NextNumArgs))
                   /\ Type(StackGet(Cur, sp - NextNumArgs)) # ARRAY_OBJ) =>
                    Type(SlotAfter(sp' - 1)) = ERROR_OBJ]_vars

\* The closures a machine holds: in its stack slots, its globals, its frames and
\* its arrays.
IsClosure(o) == ~IsNil(o) /\ Type(o) = CLOSURE_OBJ
ClosuresOf(s) == {s[k] : k \in {j \in DOMAIN s : IsClosure(s[j])}}
ClosuresHeld(st, gl, fr, hp) ==
    ClosuresOf(st) \cup ClosuresOf(gl) \cup {fr[k].cl : k \in DOMAIN fr}
    \cup UNION {ClosuresOf(hp[a]) : a \in DOMAIN hp}
Closures == ClosuresHeld(stack, globals, frames, heap)
ClosuresAfter == ClosuresHeld(stack', globals', frames', heap')

\* The OpClosure about to run, over a function constant and slots within the stack.
NextIsClosure == AtBoundary /\ NextOp = OpClosure /\ Operands(Fetched, 3)
ClosureConstIndex == ReadUint16(Ins(Cur), Ip(Cur) + 2)
ClosureNumFree == ReadUint8(Ins(Cur), Ip(Cur) + 4)
ClosureCaptures ==
    /\ NextIsClosure
    /\ ClosureConstIndex < Len(constants)
    /\ Type(At(constants, ClosureConstIndex)) = COMPILED_FUNCTION_OBJ
    /\ 0 <= sp - ClosureNumFree /\ sp - ClosureNumFree < StackSize /\ sp <= StackSize

\* C17: OpClosure with nfree free variables lowers sp by nfree and pushes a closure
\* that no one held before, whose Free list is stack[sp-nfree .. sp) in order; and
\* no step of any kind changes the Free list of a closure that is held.
C17_CaptureByValue ==
    [][/\ ClosureCaptures =>
            /\ status' = "running"
            /\ sp' = sp - ClosureNumFree + 1
            /\ IsClosure(SlotAfter(sp' - 1))
            /\ SlotAfter(sp' - 1).Fn = At(constants, ClosureConstIndex)
            /\ SlotAfter(sp' - 1).Free =
                    [k \in 1 .. ClosureNumFree |->
                        StackGet(Cur, sp - ClosureNumFree + k - 1)]
            /\ \A c \in Closures : c.id # SlotAfter(sp' - 1).id
       /\ \A a \in Closures, b \in ClosuresAfter : a.id = b.id => a.Free = b.Free]_vars

\* The closure that captured x = 5 and 7 was called after x became 9 and the two
\* slots were written over, and returned 5 - 7.
C17_Witness ==
    /\ status = "running"
    /\ framesIndex = 1
    /\ IsInteger(GlobalGet(Cur, 0)) /\ GlobalGet(Cur, 0).n = 9
    /\ IsClosure(GlobalGet(Cur, 1)) /\ Len(GlobalGet(Cur, 1).Free) = 2
    /\ GlobalGet(Cur, 1).Free[1].n = 5 /\ GlobalGet(Cur, 1).Free[2].n = 7
    /\ sp = 1 /\ IsInteger(stack[1]) /\ stack[1].n = -2

\* The global access about to run and its operand.
NextIsGlobal(op) == AtBoundary /\ NextOp = op /\ Operands(Fetched, 2)
GlobalIndex == ReadUint16(Ins(Cur), Ip(Cur) + 2)

\* C18: machines made one after the other over one globals store read and write
\* that store: a new machine starts with the globals the last one left, whether
\* that one ended with an error or not; a step that ends Run with an error writes
\* no global; the globals change only by OpSetGlobal, at its index, to the value
\* popped; and OpGetGlobal pushes what the store holds at its index.
C18_GlobalsStore ==
    [][/\ status \in {"done", "error"} => globals' = globals
       /\ status' = "error" => globals' = globals
       /\ globals' # globals =>
            /\ NextIsGlobal(OpSetGlobal)
            /\ globals' = MapPut(globals, GlobalIndex, StackGet(Cur, sp - 1))
       /\ (NextIsGlobal(OpGetGlobal) /\ sp < StackSize) =>
            /\ sp' = sp + 1
            /\ SlotAfter(sp) = GlobalGet(Cur, GlobalIndex)]_vars

\* The line y has pushed the 7 that an earlier line stored before it failed.
C18_Witness ==
    /\ status = "running"
    /\ constants = <<>>
    /\ Ins(Cur) = Concat(<<Make(OpGetGlobal, <<1>>), Make(OpPop, <<>>)>>)
    /\ Ip(Cur) = 2
    /\ sp = 1 /\ IsInteger(stack[1]) /\ stack[1].n = 7

\* C19: the first error ends the run: the step that produces it leaves an error to
\* return, and from then on nothing is fetched or executed, so that ip, the frames,
\* the globals and all the rest stay as the failing instruction left them.
C19_FirstErrorAborts ==
    [][/\ status' = "error" => (status = "running" /\ err' # "")
       /\ status = "error" => UNCHANGED vars]_vars

\* Run returned the error of true + 7 with an OpPop still ahead.
C19_Witness ==
    /\ status = "error"
    /\ err = "unsupported types for binary operation: BOOLEAN INTEGER"
    /\ LoopCondition
    /\ NextOp = OpPop

\* C20: a byte fetched as opcode that is none of the defined opcodes makes Run
\* return an error; it is not skipped.
C20_UnknownOpcode ==
    [][(AtBoundary /\ NextOp \notin DefinedOpcodes) => status' = "error"]_vars

\* The slots at index i and above, before and after a step.
SlotsKeptFrom(i) ==
    \A k \in i .. (Len(stack) + Len(stack')) : SlotAfter(k) = StackGet(Cur, k)

\* C21: OpPop lowers sp by one and writes no slot, so that the slot at the new sp,
\* which LastPoppedStackElem reads, holds the popped value; and no step whatever
\* writes a slot at or above the sp it leaves, so the value stays there until a
\* push comes to that index.
C21_PopLeavesSlot ==
    [][/\ (AtBoundary /\ NextOp = OpPop /\ sp >= 1 /\ sp <= StackSize) =>
            /\ status' = "running"
            /\ sp' = sp - 1
            /\ stack' = stack
            /\ SlotAfter(sp') = StackGet(Cur, sp - 1)
       /\ (status = "running" /\ sp' >= 0) => SlotsKeptFrom(sp')]_vars

\* 1 + 2 was popped by the OpPop that ends the statement: sp is 0 and slot 0 holds 3.
C21_Witness ==
    /\ status = "running"
    /\ IsCase /\ Len(Ins(Cur)) = 8 /\ At(Ins(Cur), 6) = OpAdd
    /\ Ip(Cur) = 7 /\ At(Ins(Cur), Ip(Cur)) = OpPop
    /\ sp = 0
    /\ IsInteger(LastPoppedStackElem(Cur)) /\ LastPoppedStackElem(Cur).n = 3

\* C23: OpWhile pops one value and then continues at its target, whether the value
\* is truthy or falsy.
C23_WhileAlwaysJumps ==
    [][(NextIsJump(OpWhile) /\ sp >= 1 /\ sp <= StackSize) =>
            /\ status' = "running"
            /\ sp' = sp - 1
            /\ stack' = stack
            /\ framesIndex' = framesIndex
            /\ IpAfter = JumpTarget - 1]_vars

\* OpWhile has popped true and left ip before its target 7, past two instructions.
C23_Witness ==
    /\ status = "running"
    /\ Len(Ins(Cur)) > 1 /\ At(Ins(Cur), 1) = OpWhile
    /\ Ip(Cur) = 6
    /\ sp = 0 /\ Len(stack) = 1 /\ stack[1] = True

\* The return about to run in a frame that was called, and the caller's frame.
NextIsReturn(op) ==
    /\ AtBoundary /\ NextOp = op
    /\ framesIndex >= 2
    /\ currentFrame(Cur).basePointer >= 1
    /\ currentFrame(Cur).basePointer <= StackSize
CallerFrame == frames[framesIndex - 1]

\* What a return leaves: the caller's frame current and as it was, its ip on the
\* operand byte of the OpCall, and the value on top of the stack.
Resumes(value) ==
    /\ status' = "running"
    /\ framesIndex' = framesIndex - 1
    /\ frames'[framesIndex'] = CallerFrame
    /\ CallerFrame.ip >= 1
    /\ At(Instructions(CallerFrame), CallerFrame.ip - 1) = OpCall
    /\ sp' >= 1
    /\ SlotAfter(sp' - 1) = value

\* C22: OpReturnValue and OpReturn in a callee pop its frame, so that none of its
\* remaining instructions runs: the caller goes on at the instruction after the
\* OpCall and its operand byte, with the returned value, or Null for OpReturn, on
\* top of the stack.
C22_ReturnResumesCaller ==
    [][/\ (NextIsReturn(OpReturnValue) /\ sp >= 1 /\ sp <= StackSize) =>
            Resumes(StackGet(Cur, sp - 1))
       /\ NextIsReturn(OpReturn) => Resumes(Null)]_vars

\* A callee returned 8 with instructions of its own still ahead; the caller is
\* current again, just past its OpCall.
C22_Witness ==
    /\ status = "running"
    /\ framesIndex = 1 /\ Len(frames) >= 2
    /\ frames[2].ip < Len(Instructions(frames[2])) - 1
    /\ At(Instructions(frames[2]), frames[2].ip) = OpReturnValue
    /\ Ip(Cur) >= 1 /\ At(Ins(Cur), Ip(Cur) - 1) = OpCall
    /\ sp >= 1 /\ IsInteger(StackTop(Cur)) /\ StackTop(Cur).n = 8

\* C24: OpDiv and OpMod on two Integers of which the right one is 0 make Run return
\* an error: no crash, and no value pushed.
C24_DivideByZeroIsError ==
    [][(BinaryOn({OpDiv, OpMod}, INTEGER_OBJ, INTEGER_OBJ) /\ BinaryRight.n = 0) =>
            /\ status' = "error"
            /\ sp' = sp - 2]_vars

\* The OpArray about to run over slots within the stack, and its operand.
NextIsArray ==
    /\ AtBoundary /\ NextOp = OpArray /\ Operands(Fetched, 2)
    /\ 0 <= sp - NextNumElements /\ sp <= StackSize /\ sp - NextNumElements < StackSize

\* C25: OpArray n lowers sp by n - 1 and leaves on top an Array made for it whose
\* element i is what was at stack[sp - n + i]; for n = 0 an empty Array is pushed.
C25_ArrayLiteral ==
    [][NextIsArray =>
            LET n == NextNumElements
                array == SlotAfter(sp' - 1)
            IN  /\ status' = "running"
                /\ sp' = sp - n + 1
                /\ ~IsNil(array) /\ Type(array) = ARRAY_OBJ
                /\ array.id \notin DOMAIN heap
                /\ heap'[array.id] = [i \in 1 .. n |-> StackGet(Cur, sp - n + i - 1)]
                /\ \A a \in DOMAIN heap : heap'[a] = heap[a]
                /\ Below(stack', sp' - 1) = Below(stack, sp' - 1)]_vars

\* [1 + 2, 3 * 4, 5 + 6] has been built: one Array of 3, 12, 11 on a stack of one.
C25_Witness ==
    /\ status = "running"
    /\ Ip(Cur) >= 2 /\ At(Ins(Cur), Ip(Cur) - 2) = OpArray
    /\ sp = 1
    /\ ~IsNil(StackTop(Cur)) /\ Type(StackTop(Cur)) = ARRAY_OBJ
    /\ Len(heap[StackTop(Cur).id]) = 3
    /\ heap[StackTop(Cur).id][1].n = 3
    /\ heap[StackTop(Cur).id][2].n = 12
    /\ heap[StackTop(Cur).id][3].n = 11

\* The hashable objects a machine holds in its stack slots and its constants.
HeldObjects == stack \o constants
HeldHashables == {k \in DOMAIN HeldObjects : Dictable(HeldObjects[k])}
SameTypeAndValue(a, b) ==
    /\ Type(a) = Type(b)
    /\ (Type(a) = INTEGER_OBJ => a.n = b.n)
    /\ (Type(a) = BOOLEAN_OBJ => a.b = b.b)
    /\ (Type(a) = STRING_OBJ => a.s = b.s)

\* C26: of two hashable values that are not both Strings the DictKeys are equal iff
\* the values have the same type and the same value, so that an Integer, a Boolean
\* and a String never address one dict entry; and the key value of an Integer is
\* its value read as unsigned.
C26_DictKeyInjective ==
    \A i \in HeldHashables :
        LET a == HeldObjects[i] IN
        /\ Type(a) = INTEGER_OBJ =>
                /\ DictKey(a).Value \in 0 .. (IntMod - 1)
                /\ (DictKey(a).Value - a.n) % IntMod = 0
        /\ \A j \in HeldHashables :
                LET b == HeldObjects[j] IN
                (Type(a) # STRING_OBJ \/ Type(b) # STRING_OBJ) =>
                    ((DictKey(a) = DictKey(b)) <=> SameTypeAndValue(a, b))

\* -1 and true are on the stack: key values 2^IntBits - 1 and 1; and the constants
\* hold nothing else.
C26_Witness ==
    /\ sp = 2 /\ Len(stack) = 2 /\ Len(constants) = 1
    /\ IsInteger(stack[1]) /\ stack[1].n = -1
    /\ stack[2] = True
    /\ DictKey(stack[1]).Value = IntMod - 1
    /\ DictKey(stack[2]).Value = 1

\* The call removeFromArray(arr, i) about to run, on an array and an Integer.
NextIsRemove ==
    /\ NextIsBuiltinCall
    /\ NextCallee.name = "removeFromArray"
    /\ NextNumArgs = 2
    /\ ~IsNil(StackGet(Cur, sp - 2)) /\ Type(StackGet(Cur, sp - 2)) = ARRAY_OBJ
    /\ IsInteger(StackGet(Cur, sp - 1))

\* C27: removeFromArray(arr, i) with 0 <= i < len(arr) takes the element at index i
\* out of arr itself, the others keeping their order, and returns arr, the same
\* object; with i < 0 or i >= len(arr) it returns an Error "index out of bounds: i"
\* and arr is as it was. No other array changes, and no global.
C27_RemoveFromArray ==
    [][NextIsRemove =>
            LET arr == StackGet(Cur, sp - 2)
                i == StackGet(Cur, sp - 1).n
                elements == heap[arr.id]
            IN  /\ status' = "running"
                /\ sp' = sp - 2
                /\ globals' = globals
                /\ \A a \in DOMAIN heap : a # arr.id => heap'[a] = heap[a]
                /\ IF 0 <= i /\ i < Len(elements)
                   THEN /\ SlotAfter(sp' - 1) = arr
                        /\ heap'[arr.id] = SubSeq(elements, 1, i)
                                           \o SubSeq(elements, i + 2, Len(elements))
                   ELSE /\ Type(SlotAfter(sp' - 1)) = ERROR_OBJ
                        /\ SlotAfter(sp' - 1).msg = "index out of bounds: " \o ToString(i)
                        /\ heap'[arr.id] = elements]_vars

\* var a << [1, 2, 3]; var b << a; removeFromArray(a, 1) has returned a, which is
\* [1, 3], and is b as well.
C27_Witness ==
    /\ status = "running"
    /\ sp = 1 /\ ~IsNil(StackTop(Cur)) /\ Type(StackTop(Cur)) = ARRAY_OBJ
    /\ GlobalGet(Cur, 0) = StackTop(Cur)
    /\ GlobalGet(Cur, 1) = StackTop(Cur)
    /\ Len(heap[StackTop(Cur).id]) = 2
    /\ heap[StackTop(Cur).id][1].n = 1
    /\ heap[StackTop(Cur).id][2].n = 3

\* The call about to run is one of first, last, allButFirst, min, max on an empty
\* array.
NextReturnsNothing ==
    /\ NextIsBuiltinCall
    /\ NextCallee.name \in {"first", "last", "allButFirst", "min", "max"}
    /\ NextNumArgs = 1
    /\ ~IsNil(StackGet(Cur, sp - 1)) /\ Type(StackGet(Cur, sp - 1)) = ARRAY_OBJ
    /\ heap[StackGet(Cur, sp - 1).id] = <<>>

\* C28: first, last, allButFirst, min and max of an empty array leave Null, the one
\* Null object, as the result of the call; and every call of a built-in that returns
\* takes the callee and the arguments off the stack, its result lying where the
\* callee was, above slots that are as before.
C28_NothingIsNull ==
    [][/\ NextReturnsNothing =>
            /\ status' = "running"
            /\ SlotAfter(sp - 2) = Null
       /\ (NextIsBuiltinCall /\ status' = "running") =>
            /\ sp' = sp - NextNumArgs
            /\ framesIndex' = framesIndex
            /\ Below(stack', sp' - 1) = Below(stack, sp' - 1)]_vars

\* [7, min([])]: min has returned, Null lies above the 7 where the built-in was, and
\* the empty array is still in the slot above.
C28_Witness ==
    /\ status = "running"
    /\ Ip(Cur) >= 1 /\ At(Ins(Cur), Ip(Cur) - 1) = OpCall
    /\ sp = 2 /\ Len(stack) >= 3
    /\ IsInteger(stack[1]) /\ stack[1].n = 7
    /\ stack[2] = Null
    /\ Type(stack[3]) = ARRAY_OBJ /\ heap[stack[3].id] = <<>>

\* C29: the main frame is never popped and sp is never negative, whatever is run, a
\* return in the main frame included: framesIndex stays at least 1 and sp at least 0.
C29_MainFrameStays == framesIndex >= 1 /\ sp >= 0

\* Every active frame above the main one begins past the locals of its caller.
FramesApart(fr, index) ==
    \A k \in 2 .. index :
        fr[k].basePointer > fr[k - 1].basePointer + fr[k - 1].cl.Fn.NumLocals

Canonical(o) ==
    \/ IsNil(o)
    \/ Type(o) \notin {BOOLEAN_OBJ, NULL_OBJ}
    \/ o = True \/ o = False \/ o = Null
\* The same of every object in the slots of s, the pairs of the dicts included.
AllCanonical(s) ==
    \A k \in DOMAIN s :
        /\ Canonical(s[k])
        /\ (~IsNil(s[k]) /\ Type(s[k]) = DICT_OBJ) =>
                \A key \in DOMAIN s[k].Pairs :
                    Canonical(s[k].Pairs[key].Key) /\ Canonical(s[k].Pairs[key].Value)
CanonicalMachine(st, gl, hp) ==
    AllCanonical(st) /\ AllCanonical(gl) /\ \A a \in DOMAIN hp : AllCanonical(hp[a])

\* C31: every Boolean and Null in the stack slots, the globals, the arrays and the
\* dicts is one of the objects True, False, Null; and OpBang on any value of the
\* stack pushes True iff isTruthy, the rule of OpJumpNotTruthy, makes it falsy, and
\* False otherwise.
C31_CanonicalSingletons ==
    [][/\ CanonicalMachine(stack, globals, heap)
       /\ CanonicalMachine(stack', globals', heap')
       /\ (AtBoundary /\ NextOp = OpBang /\ sp >= 1 /\ sp <= StackSize) =>
            /\ status' = "running"
            /\ sp' = sp
            /\ SlotAfter(sp' - 1) = IF isTruthy(StackGet(Cur, sp - 1)) THEN False
                                    ELSE True]_vars

\* !(if (false) { 5 }): OpBang has put True where the Null of the missing branch was.
C31_Witness ==
    /\ status = "running"
    /\ Ip(Cur) >= 1 /\ At(Ins(Cur), Ip(Cur)) = OpBang /\ At(Ins(Cur), Ip(Cur) - 1) = OpNull
    /\ sp = 1 /\ stack[1] = True

\* The next instruction is a jump whose target is not after the jump.
JumpsBack ==
    /\ AtBoundary
    /\ NextOp \in {OpJump, OpJumpNotTruthy, OpWhile}
    /\ Operands(Fetched, 2)
    /\ JumpTarget <= Ip(Cur) + 1
\* A function is active twice.
Recursing ==
    \E i, j \in 1 .. framesIndex : i < j /\ frames[i].cl.Fn = frames[j].cl.Fn
\* The frames that are active before and after the step.
KeptFrames == 1 .. (IF framesIndex < framesIndex' THEN framesIndex ELSE framesIndex')

\* C32: a run in which no jump goes back and no function is called while it is
\* active comes to its end. Every turn of the loop that leaves Run running and is no
\* jump back leaves ip greater in the frame that took it, if that frame stays, and
\* no smaller in the frames below; when ip is len(instructions) - 1 or more in the
\* current frame, Run returns.
C32_Terminates ==
    /\ <>(JumpsBack \/ Recursing \/ status # "running")
    /\ [][/\ (AtBoundary /\ ~JumpsBack /\ status' = "running") =>
                \A k \in KeptFrames :
                    /\ frames'[k].ip >= frames[k].ip
                    /\ k = framesIndex => frames'[k].ip > frames[k].ip
          /\ (status = "running" /\ ~LoopCondition) => status' = "done"]_vars

\* if (true) { 10 } else { 20 }: both jumps lie before their targets, the second was
\* taken, and Run has returned with ip at the last byte.
C32_Witness ==
    /\ status = "done"
    /\ framesIndex = 1
    /\ Len(Ins(Cur)) = 14
    /\ At(Ins(Cur), 0) = OpTrue
    /\ At(Ins(Cur), 1) = OpJumpNotTruthy /\ ReadUint16(Ins(Cur), 2) > 1
    /\ At(Ins(Cur), 7) = OpJump /\ ReadUint16(Ins(Cur), 8) > 7
    /\ Ip(Cur) = Len(Ins(Cur)) - 1
    /\ sp = 0 /\ stack[1].type = INTEGER_OBJ /\ stack[1].n = 10

====
